---- MODULE Spec2Model ----
(***************************************************************************)
(* tinydns: the resolution pipeline of TinyDNS.ServeDNS (config rules,     *)
(* in-memory records, disk cache, upstream with retries, fallback).        *)
(*                                                                         *)
(* Go strings that the code inspects character by character (domain        *)
(* names, rule patterns, record type names, cache keys) are sequences of   *)
(* one-character strings; strings the code only compares with "" or copies *)
(* are TLA+ strings.                                                       *)
(***************************************************************************)
EXTENDS Integers, Sequences, FiniteSets, TLC

VARIABLES options, config, hm, pc, req, attempt, log, served, boot

vars == <<options, config, hm, pc, req, attempt, log, served, boot>>

(***************************************************************************)
(* Bounds of the model.                                                    *)
(***************************************************************************)
MaxQueries == 2
MaxRules == 2
MaxRetries == 3
MaxCacheOps == 3
MaxYamlRules == 1
MaxNameLen == 3
MaxKeyOps == 2

(***************************************************************************)
(* strings.HasPrefix / HasSuffix / TrimPrefix / TrimSuffix / ToUpper       *)
(***************************************************************************)
HasPrefix(s, prefix) ==
    /\ Len(s) >= Len(prefix)
    /\ SubSeq(s, 1, Len(prefix)) = prefix

HasSuffix(s, suffix) ==
    /\ Len(s) >= Len(suffix)
    /\ SubSeq(s, Len(s) - Len(suffix) + 1, Len(s)) = suffix

TrimPrefix(s, prefix) ==
    IF HasPrefix(s, prefix) THEN SubSeq(s, Len(prefix) + 1, Len(s)) ELSE s

TrimSuffix(s, suffix) ==
    IF HasSuffix(s, suffix) THEN SubSeq(s, 1, Len(s) - Len(suffix)) ELSE s

UpperChar(c) ==
    CASE c = "a" -> "A"
      [] c = "m" -> "M"
      [] c = "x" -> "X"
      [] c = "s" -> "S"
      [] c = "o" -> "O"
      [] OTHER -> c

ToUpper(s) == [i \in 1..Len(s) |-> UpperChar(s[i])]

(***************************************************************************)
(* Record types (miekg/dns type codes) and dns.TypeToString.               *)
(***************************************************************************)
TypeA == 1
TypeNS == 2
TypeCNAME == 5
TypeSOA == 6
TypePTR == 12
TypeMX == 15
TypeTXT == 16
TypeAAAA == 28
TypeSRV == 33

TypeToString(qtype) ==
    CASE qtype = TypeA -> <<"A">>
      [] qtype = TypeNS -> <<"N", "S">>
      [] qtype = TypeCNAME -> <<"C", "N", "A", "M", "E">>
      [] qtype = TypeSOA -> <<"S", "O", "A">>
      [] qtype = TypePTR -> <<"P", "T", "R">>
      [] qtype = TypeMX -> <<"M", "X">>
      [] qtype = TypeTXT -> <<"T", "X", "T">>
      [] qtype = TypeAAAA -> <<"A", "A", "A", "A">>
      [] qtype = TypeSRV -> <<"S", "R", "V">>
      [] OTHER -> <<>>

\* the case list of the switch in ServeDNS
SupportedTypes ==
    {TypeA, TypeAAAA, TypeMX, TypeTXT, TypeSRV, TypeCNAME, TypeNS, TypePTR}

(***************************************************************************)
(* net.ParseIP and net.IP.String: an IP value is [bytes |-> canonical      *)
(* text], the nil IP has no bytes.                                         *)
(***************************************************************************)
NilIP == [bytes |-> ""]

CanonicalIPs ==
    {"0.0.0.0", "10.0.0.1", "10.0.0.5", "127.0.0.1", "192.168.1.100",
     "192.168.1.101", "93.184.216.34", "::", "::1"}

ParseIP(s) ==
    IF s \in CanonicalIPs THEN [bytes |-> s]
    ELSE IF s = "0:0:0:0:0:0:0:1" THEN [bytes |-> "::1"]
    ELSE NilIP

IPString(ip) == IF ip = NilIP THEN "<nil>" ELSE ip.bytes

(***************************************************************************)
(* type.go: DnsRecord, the answer set of one domain.                       *)
(***************************************************************************)
DnsRecord(a, aaaa, mx, txt, cname, ns, ptr, srv) ==
    [A |-> a, AAAA |-> aaaa, MX |-> mx, TXT |-> txt, CNAME |-> cname,
     NS |-> ns, PTR |-> ptr, SRV |-> srv]

EmptyDnsRecord == DnsRecord(<<>>, <<>>, <<>>, <<>>, "", <<>>, <<>>, <<>>)

(***************************************************************************)
(* config.go: DNSRecord (one rule of the YAML file) and LoadConfig.        *)
(***************************************************************************)
DNSRecord(domain, type, value, values, ttl, priority, weight, port, target, action) ==
    [Domain |-> domain, Type |-> type, Value |-> value, Values |-> values,
     TTL |-> ttl, Priority |-> priority, Weight |-> weight, Port |-> port,
     Target |-> target, Action |-> action]

UpstreamConfig(retries, fallback, defaultA, defaultAAAA, servers) ==
    [Retries |-> retries, FallbackResponse |-> fallback, DefaultA |-> defaultA,
     DefaultAAAA |-> defaultAAAA, Servers |-> servers]

\* the defaults applied by the loop body of LoadConfig, in its order
NormalizeRecord(record) ==
    [record EXCEPT
        !.Type = ToUpper(@),
        !.Action = IF @ = "" THEN "resolve" ELSE @,
        !.TTL = IF @ = 0 THEN 300 ELSE @,
        !.Priority = IF /\ record.Action \in {"", "resolve"}
                        /\ ToUpper(record.Type) = <<"M", "X">>
                        /\ record.Target # ""
                        /\ @ = 0
                     THEN 10 ELSE @]

\* the error returns of the loop body of LoadConfig
RecordInvalid(record) ==
    LET r == NormalizeRecord(record)
    IN  \/ r.Action \notin {"resolve", "forward"}
        \/ /\ r.Action = "resolve"
           /\ CASE r.Type \in {<<"A">>, <<"A", "A", "A", "A">>} ->
                     r.Value = "" /\ Len(r.Values) = 0
                [] r.Type = <<"M", "X">> -> r.Target = ""
                [] r.Type = <<"S", "R", "V">> -> r.Target = "" \/ r.Port = 0
                [] r.Type \in {<<"T", "X", "T">>, <<"C", "N", "A", "M", "E">>,
                               <<"N", "S">>, <<"P", "T", "R">>} -> r.Value = ""
                [] OTHER -> TRUE

ZeroUpstream == UpstreamConfig(0, FALSE, "", "", <<>>)

\* options.ConfigFile == "": no file is read and t.config stays nil
NoFile == [present |-> FALSE, ok |-> TRUE, Records |-> <<>>, Upstream |-> ZeroUpstream]
NoConfig == [loaded |-> FALSE, Records |-> <<>>, Upstream |-> ZeroUpstream]

ConfigFile(records, upstream) ==
    [present |-> TRUE, ok |-> TRUE, Records |-> records, Upstream |-> upstream]

\* a file os.ReadFile cannot read or yaml.Unmarshal cannot parse
BadFile == [present |-> TRUE, ok |-> FALSE, Records |-> <<>>, Upstream |-> ZeroUpstream]

\* variant: only the first rule of the file is validated
LoadConfigFirstRuleOnly(file) ==
    IF ~file.ok \/ (Len(file.Records) > 0 /\ RecordInvalid(file.Records[1]))
    THEN [err |-> TRUE, config |-> NoConfig]
    ELSE [err |-> FALSE,
          config |-> [loaded |-> TRUE,
                      Records |-> [i \in 1..Len(file.Records) |->
                                      NormalizeRecord(file.Records[i])],
                      Upstream |-> file.Upstream]]

LoadConfig(file) ==
    IF ~file.ok \/ \E i \in 1..Len(file.Records) : RecordInvalid(file.Records[i])
    THEN [err |-> TRUE, config |-> NoConfig]
    ELSE [err |-> FALSE,
          config |-> [loaded |-> TRUE,
                      Records |-> [i \in 1..Len(file.Records) |->
                                      NormalizeRecord(file.Records[i])],
                      Upstream |-> file.Upstream]]

(***************************************************************************)
(* option.go: Options and DefaultOptions; tinydns.go: New.                 *)
(***************************************************************************)
DefaultOptions ==
    [UpstreamServers |-> <<"1.1.1.1:53">>,
     DnsRecords |-> <<>>,
     DiskCache |-> TRUE,
     UseDiskCache |-> TRUE,
     UpstreamRetries |-> 2,
     FallbackResponse |-> FALSE,
     DefaultA |-> "0.0.0.0",
     DefaultAAAA |-> "::"]

New(opts, file) ==
    IF ~file.present THEN [err |-> FALSE, options |-> opts, config |-> NoConfig]
    ELSE LET loaded == LoadConfig(file) IN
         IF loaded.err THEN [err |-> TRUE, options |-> opts, config |-> NoConfig]
         ELSE [err |-> FALSE,
               options |->
                   [opts EXCEPT
                       !.UpstreamRetries =
                           IF file.Upstream.Retries > 0
                           THEN file.Upstream.Retries ELSE @,
                       !.FallbackResponse =
                           IF file.Upstream.FallbackResponse THEN TRUE ELSE @,
                       !.DefaultA =
                           IF file.Upstream.DefaultA # ""
                           THEN file.Upstream.DefaultA ELSE @,
                       !.DefaultAAAA =
                           IF file.Upstream.DefaultAAAA # ""
                           THEN file.Upstream.DefaultAAAA ELSE @,
                       !.UpstreamServers =
                           IF Len(file.Upstream.Servers) > 0
                           THEN file.Upstream.Servers ELSE @],
               config |-> loaded.config]

(***************************************************************************)
(* DNS messages (miekg/dns), as far as the pipeline reads or writes them.  *)
(***************************************************************************)
Request(name, qtype) == [Question |-> <<[Name |-> name, Qtype |-> qtype]>>]

NoQuestion == [Question |-> <<>>]

RR(name, rrtype, ttl, data) ==
    [Name |-> name, Rrtype |-> rrtype, Ttl |-> ttl, Data |-> data]

\* msg := new(dns.Msg); msg.SetReply(r)
SetReply(r) ==
    [Question |-> r.Question, Authoritative |-> FALSE, Rcode |-> 0, Answer |-> <<>>]

(***************************************************************************)
(* matchesDomain                                                           *)
(***************************************************************************)
\* variant: the suffix compared is the pattern without its leading "*."
matchesDomainPlainSuffix(query, pattern) ==
    IF pattern = <<"*">> THEN TRUE
    ELSE IF HasPrefix(pattern, <<"*", ".">>)
         THEN HasSuffix(query, TrimPrefix(pattern, <<"*", ".">>))
         ELSE query = pattern

\* variant: a wildcard pattern matches its own remainder too
matchesDomainApexToo(query, pattern) ==
    IF pattern = <<"*">> THEN TRUE
    ELSE IF HasPrefix(pattern, <<"*", ".">>)
         THEN \/ HasSuffix(query, TrimPrefix(pattern, <<"*">>))
              \/ query = TrimPrefix(pattern, <<"*", ".">>)
         ELSE query = pattern

matchesDomain(query, pattern) ==
    IF pattern = <<"*">> THEN TRUE
    ELSE IF HasPrefix(pattern, <<"*", ".">>)
         THEN HasSuffix(query, TrimPrefix(pattern, <<"*">>))
         ELSE query = pattern

(***************************************************************************)
(* createResponseFromConfig                                                *)
(***************************************************************************)
\* variant: the TTL of the records is the fixed 60 of the other builder
createResponseFromConfigFixedTTL(r, domain, record, qtype) ==
    LET hdr(data) == RR(domain, qtype, 60, data)
        answer ==
            (IF record.Value # "" THEN <<hdr(ParseIP(record.Value))>> ELSE <<>>)
            \o [i \in 1..Len(record.Values) |-> hdr(ParseIP(record.Values[i]))]
    IN  [SetReply(r) EXCEPT !.Authoritative = TRUE, !.Answer = answer]

\* variant: an A or AAAA answer holds the record of value only
createResponseFromConfigValueOnly(r, domain, record, qtype) ==
    LET hdr(data) == RR(domain, qtype, record.TTL, data)
    IN  [SetReply(r) EXCEPT
            !.Authoritative = TRUE,
            !.Answer = IF qtype \in {TypeA, TypeAAAA} /\ record.Value # ""
                       THEN <<hdr(ParseIP(record.Value))>>
                       ELSE IF qtype = TypeMX
                       THEN <<hdr([Preference |-> record.Priority,
                                   Mx |-> record.Target])>>
                       ELSE <<>>]

createResponseFromConfig(r, domain, record, qtype) ==
    LET hdr(data) == RR(domain, qtype, record.TTL, data)
        addrs == (IF record.Value # "" THEN <<hdr(ParseIP(record.Value))>> ELSE <<>>)
                 \o [i \in 1..Len(record.Values) |-> hdr(ParseIP(record.Values[i]))]
        answer ==
            CASE qtype \in {TypeA, TypeAAAA} -> addrs
              [] qtype = TypeMX ->
                   <<hdr([Preference |-> record.Priority, Mx |-> record.Target])>>
              [] qtype = TypeTXT -> <<hdr(<<record.Value>>)>>
              [] qtype = TypeSRV ->
                   <<hdr([Priority |-> record.Priority, Weight |-> record.Weight,
                          Port |-> record.Port, Target |-> record.Target])>>
              [] qtype \in {TypeCNAME, TypeNS, TypePTR} -> <<hdr(record.Value)>>
              [] OTHER -> <<>>
    IN  [SetReply(r) EXCEPT !.Authoritative = TRUE, !.Answer = answer]

(***************************************************************************)
(* createResponseFromDnsRecord                                             *)
(***************************************************************************)
createResponseFromDnsRecord(r, domain, dnsRecord, qtype) ==
    LET hdr(data) == RR(domain, qtype, 60, data)
        each(list) == [i \in 1..Len(list) |-> hdr(list[i])]
        answer ==
            CASE qtype = TypeA ->
                   [i \in 1..Len(dnsRecord.A) |-> hdr(ParseIP(dnsRecord.A[i]))]
              [] qtype = TypeAAAA ->
                   [i \in 1..Len(dnsRecord.AAAA) |-> hdr(ParseIP(dnsRecord.AAAA[i]))]
              [] qtype = TypeMX ->
                   [i \in 1..Len(dnsRecord.MX) |->
                       hdr([Preference |-> dnsRecord.MX[i].Priority,
                            Mx |-> dnsRecord.MX[i].Target])]
              [] qtype = TypeTXT ->
                   [i \in 1..Len(dnsRecord.TXT) |-> hdr(<<dnsRecord.TXT[i]>>)]
              [] qtype = TypeSRV -> each(dnsRecord.SRV)
              [] qtype = TypeCNAME ->
                   IF dnsRecord.CNAME # "" THEN <<hdr(dnsRecord.CNAME)>> ELSE <<>>
              [] qtype = TypeNS -> each(dnsRecord.NS)
              [] qtype = TypePTR -> each(dnsRecord.PTR)
              [] OTHER -> <<>>
    IN  [SetReply(r) EXCEPT !.Authoritative = TRUE, !.Answer = answer]

(***************************************************************************)
(* extractDnsRecord                                                        *)
(***************************************************************************)
RECURSIVE Join(_)
Join(strs) == IF strs = <<>> THEN "" ELSE Head(strs) \o Join(Tail(strs))

extractOne(dnsRecord, rr) ==
    CASE rr.Rrtype = TypeA -> [dnsRecord EXCEPT !.A = Append(@, IPString(rr.Data))]
      [] rr.Rrtype = TypeAAAA ->
           [dnsRecord EXCEPT !.AAAA = Append(@, IPString(rr.Data))]
      [] rr.Rrtype = TypeMX ->
           [dnsRecord EXCEPT !.MX = Append(@, [Priority |-> rr.Data.Preference,
                                               Target |-> rr.Data.Mx])]
      [] rr.Rrtype = TypeTXT -> [dnsRecord EXCEPT !.TXT = Append(@, Join(rr.Data))]
      [] rr.Rrtype = TypeSRV -> [dnsRecord EXCEPT !.SRV = Append(@, rr.Data)]
      [] rr.Rrtype = TypeCNAME -> [dnsRecord EXCEPT !.CNAME = rr.Data]
      [] rr.Rrtype = TypeNS -> [dnsRecord EXCEPT !.NS = Append(@, rr.Data)]
      [] rr.Rrtype = TypePTR -> [dnsRecord EXCEPT !.PTR = Append(@, rr.Data)]
      [] OTHER -> dnsRecord

RECURSIVE extractFrom(_, _)
extractFrom(answers, dnsRecord) ==
    IF answers = <<>> THEN dnsRecord
    ELSE extractFrom(Tail(answers), extractOne(dnsRecord, Head(answers)))

extractDnsRecord(msg) == extractFrom(msg.Answer, EmptyDnsRecord)

(***************************************************************************)
(* encoding/gob on a DnsRecord: the encoder sends the non-zero fields in   *)
(* declaration order, the decoder fills a zero DnsRecord with them.  A     *)
(* field on the wire is a []string (slice) or, for CNAME, a string (str).  *)
(***************************************************************************)
FieldNames == <<"A", "AAAA", "MX", "TXT", "CNAME", "NS", "PTR", "SRV">>

\* variant: only the slice fields are sent, the string field CNAME is not
GobEncodeSlicesOnly(dnsRecord) ==
    LET zero(n) == dnsRecord[n] = EmptyDnsRecord[n]
        present == SelectSeq(FieldNames, LAMBDA n : ~zero(n) /\ n # "CNAME")
    IN  [valid |-> TRUE,
         fields |-> [i \in 1..Len(present) |->
                        [name |-> present[i],
                         slice |-> dnsRecord[present[i]],
                         str |-> ""]]]

GobEncode(dnsRecord) ==
    LET zero(n) == dnsRecord[n] = EmptyDnsRecord[n]
        present == SelectSeq(FieldNames, LAMBDA n : ~zero(n))
    IN  [valid |-> TRUE,
         fields |-> [i \in 1..Len(present) |->
                        [name |-> present[i],
                         slice |-> IF present[i] = "CNAME" THEN <<>>
                                   ELSE dnsRecord[present[i]],
                         str |-> IF present[i] = "CNAME" THEN dnsRecord.CNAME
                                 ELSE ""]]]

GobDecode(bytes) ==
    LET sent(n) == {i \in 1..Len(bytes.fields) : bytes.fields[i].name = n}
        field(n) == IF sent(n) = {} THEN EmptyDnsRecord[n]
                    ELSE IF n = "CNAME"
                         THEN bytes.fields[CHOOSE i \in sent(n) : TRUE].str
                         ELSE bytes.fields[CHOOSE i \in sent(n) : TRUE].slice
    IN  IF ~bytes.valid THEN [err |-> TRUE, dnsRecord |-> EmptyDnsRecord]
        ELSE [err |-> FALSE,
              dnsRecord |-> [n \in DOMAIN EmptyDnsRecord |-> field(n)]]

(***************************************************************************)
(* What a handler does, in order: Record Store lookups, cache reads and    *)
(* writes, upstream exchanges, backoff sleeps, responses written.          *)
(***************************************************************************)
EvStoreGet(key) == [ev |-> "storeGet", key |-> key]
EvCacheGet(key) == [ev |-> "cacheGet", key |-> key]
EvDecodeError(key) == [ev |-> "decodeError", key |-> key]
EvCacheSet(key, bytes) == [ev |-> "cacheSet", key |-> key, value |-> bytes]
EvExchange(server, ok, msg) ==
    [ev |-> "exchange", server |-> server, ok |-> ok, msg |-> msg]
EvSleep == [ev |-> "sleep"]
EvWrite(tier, msg) == [ev |-> "write", tier |-> tier, msg |-> msg]

(***************************************************************************)
(* ServeDNS: the rule loop and the dispatch on the query type.             *)
(***************************************************************************)
\* variant: the loop keeps going and the last matching rule decides
configMatchLast(records, i, domainLookup, recordType) ==
    LET M == {j \in i..Len(records) :
                 /\ matchesDomain(domainLookup, records[j].Domain)
                 /\ records[j].Type = recordType}
    IN  IF M = {} THEN 0 ELSE CHOOSE j \in M : \A k \in M : k <= j

\* index of the rule at which the loop over t.config.Records returns, 0 if
\* the loop runs to its end
RECURSIVE configMatch(_, _, _, _)
configMatch(records, i, domainLookup, recordType) ==
    IF i > Len(records) THEN 0
    ELSE IF matchesDomain(domainLookup, records[i].Domain)
            /\ records[i].Type = recordType
         THEN i
         ELSE configMatch(records, i + 1, domainLookup, recordType)

\* variant: every query type is handled by the local tiers
typeSwitchAllLocal(qtype) == "handleDNSQuery"

\* switch question.Qtype
typeSwitch(qtype) ==
    IF qtype \in SupportedTypes THEN "handleDNSQuery" ELSE "forwardToUpstream"

\* variant: a forward rule only ends the rule loop, the type switch follows
ruleOutcomeForwardFallsThrough(r, record) ==
    IF record.Action = "forward"
    THEN [next |-> typeSwitch(r.Question[1].Qtype), events |-> <<>>]
    ELSE [next |-> "done",
          events |-> <<EvWrite("config",
              createResponseFromConfig(r, r.Question[1].Name, record,
                                       r.Question[1].Qtype))>>]

\* variant: no return after the response of a resolve rule, the type switch
\* follows and answers once more
ruleOutcomeResolveNoReturn(r, record) ==
    IF record.Action = "forward"
    THEN [next |-> "forwardToUpstream", events |-> <<>>]
    ELSE [next |-> typeSwitch(r.Question[1].Qtype),
          events |-> <<EvWrite("config",
              createResponseFromConfig(r, r.Question[1].Name, record,
                                       r.Question[1].Qtype))>>]

\* the loop body once a rule matches: forward, or resolve locally
ruleOutcome(r, record) ==
    IF record.Action = "forward"
    THEN [next |-> "forwardToUpstream", events |-> <<>>]
    ELSE [next |-> "done",
          events |-> <<EvWrite("config",
              createResponseFromConfig(r, r.Question[1].Name, record,
                                       r.Question[1].Qtype))>>]

\* variant: a query without a question is answered with an empty reply
noQuestionOutcomeEmptyReply == [next |-> "sendFallbackOrEmpty", events |-> <<>>]

\* if len(r.Question) == 0 { return }
noQuestionOutcome == [next |-> "done", events |-> <<>>]

ServeDNSOutcome(cfg, r) ==
    IF Len(r.Question) = 0 THEN noQuestionOutcome
    ELSE LET question == r.Question[1]
             domainLookup == TrimSuffix(question.Name, <<".">>)
             recordType == TypeToString(question.Qtype)
             i == IF cfg.loaded
                  THEN configMatch(cfg.Records, 1, domainLookup, recordType)
                  ELSE 0
         IN  IF i = 0 THEN [next |-> typeSwitch(question.Qtype), events |-> <<>>]
             ELSE ruleOutcome(r, cfg.Records[i])

(***************************************************************************)
(* handleDNSQuery: hardcoded records, wildcard record, cache.              *)
(***************************************************************************)
Star == <<"*">>

\* variant: the key is the domain alone
cacheKeyDomainOnly(name, recordType) == name

\* r.Question[0].Name+recordType
cacheKey(name, recordType) == name \o recordType

\* variant: the wildcard entry is tried before the exact one
recordStoreLookupStarFirst(dnsRecords, domainLookup) ==
    IF Star \in DOMAIN dnsRecords
    THEN [ok |-> TRUE, tier |-> "wildcard", dnsRecord |-> dnsRecords[Star],
          events |-> <<EvStoreGet(Star)>>]
    ELSE IF domainLookup \in DOMAIN dnsRecords
    THEN [ok |-> TRUE, tier |-> "memory", dnsRecord |-> dnsRecords[domainLookup],
          events |-> <<EvStoreGet(Star), EvStoreGet(domainLookup)>>]
    ELSE [ok |-> FALSE, tier |-> "none", dnsRecord |-> EmptyDnsRecord,
          events |-> <<EvStoreGet(Star), EvStoreGet(domainLookup)>>]

\* "Check hardcoded records" and "Check wildcard": the two map lookups
recordStoreLookup(dnsRecords, domainLookup) ==
    IF domainLookup \in DOMAIN dnsRecords
    THEN [ok |-> TRUE, tier |-> "memory", dnsRecord |-> dnsRecords[domainLookup],
          events |-> <<EvStoreGet(domainLookup)>>]
    ELSE IF Star \in DOMAIN dnsRecords
    THEN [ok |-> TRUE, tier |-> "wildcard", dnsRecord |-> dnsRecords[Star],
          events |-> <<EvStoreGet(domainLookup), EvStoreGet(Star)>>]
    ELSE [ok |-> FALSE, tier |-> "none", dnsRecord |-> EmptyDnsRecord,
          events |-> <<EvStoreGet(domainLookup), EvStoreGet(Star)>>]

\* variant: the entry is read but the decoded record is not used
cacheLookupUnused(opts, cache, key) ==
    IF ~opts.UseDiskCache
    THEN [ok |-> FALSE, dnsRecord |-> EmptyDnsRecord, events |-> <<>>]
    ELSE [ok |-> FALSE, dnsRecord |-> EmptyDnsRecord, events |-> <<EvCacheGet(key)>>]

\* variant: the error of the decoder is not checked, the record is used
cacheLookupErrorUnchecked(opts, cache, key) ==
    IF ~opts.UseDiskCache
    THEN [ok |-> FALSE, dnsRecord |-> EmptyDnsRecord, events |-> <<>>]
    ELSE IF key \in DOMAIN cache
    THEN [ok |-> TRUE, dnsRecord |-> GobDecode(cache[key]).dnsRecord,
          events |-> <<EvCacheGet(key)>>
                     \o (IF GobDecode(cache[key]).err
                         THEN <<EvDecodeError(key)>> ELSE <<>>)]
    ELSE [ok |-> FALSE, dnsRecord |-> EmptyDnsRecord, events |-> <<EvCacheGet(key)>>]

\* "Check cache": t.hm.Get and the gob decoding of the entry
cacheLookup(opts, cache, key) ==
    IF ~opts.UseDiskCache
    THEN [ok |-> FALSE, dnsRecord |-> EmptyDnsRecord, events |-> <<>>]
    ELSE IF key \in DOMAIN cache /\ ~GobDecode(cache[key]).err
    THEN [ok |-> TRUE, dnsRecord |-> GobDecode(cache[key]).dnsRecord,
          events |-> <<EvCacheGet(key)>>]
    ELSE IF key \in DOMAIN cache
    THEN [ok |-> FALSE, dnsRecord |-> EmptyDnsRecord,
          events |-> <<EvCacheGet(key), EvDecodeError(key)>>]
    ELSE [ok |-> FALSE, dnsRecord |-> EmptyDnsRecord, events |-> <<EvCacheGet(key)>>]

\* variant: an entry without records of the queried type is passed over
handleDNSQueryOutcomeSkipsEmpty(opts, cache, r) ==
    LET domain == r.Question[1].Name
        qtype == r.Question[1].Qtype
        domainLookup == TrimSuffix(domain, <<".">>)
        recordType == TypeToString(qtype)
        reply(dnsRecord) == createResponseFromDnsRecord(r, domain, dnsRecord, qtype)
        stored == recordStoreLookup(opts.DnsRecords, domainLookup)
        cached == cacheLookup(opts, cache, cacheKey(domain, recordType))
    IN  IF stored.ok /\ reply(stored.dnsRecord).Answer # <<>>
        THEN [next |-> "done",
              events |-> stored.events \o <<EvWrite(stored.tier, reply(stored.dnsRecord))>>]
        ELSE IF cached.ok /\ reply(cached.dnsRecord).Answer # <<>>
        THEN [next |-> "done",
              events |-> stored.events \o cached.events
                         \o <<EvWrite("cache", reply(cached.dnsRecord))>>]
        ELSE [next |-> "forwardToUpstream",
              events |-> stored.events \o cached.events]

handleDNSQueryOutcome(opts, cache, r) ==
    LET domain == r.Question[1].Name
        qtype == r.Question[1].Qtype
        domainLookup == TrimSuffix(domain, <<".">>)
        recordType == TypeToString(qtype)
        reply(dnsRecord) == createResponseFromDnsRecord(r, domain, dnsRecord, qtype)
        stored == recordStoreLookup(opts.DnsRecords, domainLookup)
        cached == cacheLookup(opts, cache, cacheKey(domain, recordType))
    IN  IF stored.ok
        THEN [next |-> "done",
              events |-> stored.events \o <<EvWrite(stored.tier, reply(stored.dnsRecord))>>]
        ELSE IF cached.ok
        THEN [next |-> "done",
              events |-> stored.events \o cached.events
                         \o <<EvWrite("cache", reply(cached.dnsRecord))>>]
        ELSE [next |-> "forwardToUpstream",
              events |-> stored.events \o cached.events]

(***************************************************************************)
(* forwardToUpstream: the retry loop.                                      *)
(***************************************************************************)
\* variant: the configured count is used as it is
effectiveRetriesUnclamped(upstreamRetries) == upstreamRetries

\* retries := t.options.UpstreamRetries; if retries <= 0 { retries = 1 }
effectiveRetries(upstreamRetries) ==
    IF upstreamRetries <= 0 THEN 1 ELSE upstreamRetries

\* err == nil && msg != nil
exchangeSucceeded(res) == ~res.err /\ ~res.nil

\* variant: the client gets a response rebuilt from the extracted records
upstreamResponseRebuilt(r, msg) ==
    createResponseFromDnsRecord(r, r.Question[1].Name, extractDnsRecord(msg),
                                r.Question[1].Qtype)

\* w.WriteMsg(msg) of the success branch
upstreamResponse(r, msg) == msg

\* variant: every successful response is cached, the empty ones too
shouldCacheAnyResponse(opts, msg) == opts.UseDiskCache

\* variant: only the entries a later query can read back are stored
shouldCacheSupportedOnly(opts, msg) ==
    /\ opts.UseDiskCache
    /\ Len(msg.Answer) > 0
    /\ msg.Question[1].Qtype \in SupportedTypes

\* t.options.UseDiskCache && len(msg.Answer) > 0
shouldCache(opts, msg) == opts.UseDiskCache /\ Len(msg.Answer) > 0

\* variant: the backoff follows every failure, the last one too
sleepsAfterEveryFailure(att, retries) == TRUE

\* if attempt < retries-1 { time.Sleep(...) }
sleepsAfterFailure(att, retries) == att < retries - 1

\* variant: the loop has no bound, it ends on a success only
loopContinuesUnbounded(att, retries) == TRUE

\* for attempt := 0; attempt < retries; attempt++
loopContinues(att, retries) == att < retries

\* variant: no return after the success branch
nextAfterAttemptNoReturn(succeeded) == "exchange"

\* the return after a success, the next iteration after a failure
nextAfterAttempt(succeeded) == IF succeeded THEN "done" ELSE "exchange"

\* variant: the store keeps only the entry written last
hmSetAlone(cache, key, bytes) == key :> bytes

\* t.hm.Set(key, bytes)
hmSet(cache, key, bytes) == (key :> bytes) @@ cache

(***************************************************************************)
(* sendFallbackOrEmpty                                                     *)
(***************************************************************************)
\* variant: an AAAA query gets the default A address when DefaultAAAA is unset
sendFallbackOrEmptyMsgSharedDefault(opts, r) ==
    LET domain == r.Question[1].Name
        qtype == r.Question[1].Qtype
        answer ==
            IF opts.FallbackResponse /\ Len(r.Question) > 0
            THEN CASE qtype = TypeA /\ opts.DefaultA # "" ->
                        <<RR(domain, TypeA, 0, ParseIP(opts.DefaultA))>>
                   [] qtype = TypeAAAA /\ opts.DefaultAAAA # "" ->
                        <<RR(domain, TypeAAAA, 0, ParseIP(opts.DefaultAAAA))>>
                   [] qtype = TypeAAAA /\ opts.DefaultA # "" ->
                        <<RR(domain, TypeAAAA, 0, ParseIP(opts.DefaultA))>>
                   [] OTHER -> <<>>
            ELSE <<>>
    IN  [SetReply(r) EXCEPT !.Answer = answer]

sendFallbackOrEmptyMsg(opts, r) ==
    LET domain == r.Question[1].Name
        qtype == r.Question[1].Qtype
        answer ==
            IF opts.FallbackResponse /\ Len(r.Question) > 0
            THEN CASE qtype = TypeA /\ opts.DefaultA # "" ->
                        <<RR(domain, TypeA, 0, ParseIP(opts.DefaultA))>>
                   [] qtype = TypeAAAA /\ opts.DefaultAAAA # "" ->
                        <<RR(domain, TypeAAAA, 0, ParseIP(opts.DefaultAAAA))>>
                   [] OTHER -> <<>>
            ELSE <<>>
    IN  [SetReply(r) EXCEPT !.Answer = answer]

\* the two RESPONSE log lines of sendFallbackOrEmpty
fallbackTier(msg) == IF Len(msg.Answer) > 0 THEN "fallback" ELSE "empty"

(***************************************************************************)
(* Inputs: queries, rule files, record stores, option values, upstream     *)
(* replies.                                                                *)
(***************************************************************************)
dAB == <<"a", ".", "b", ".">>
dXB == <<"x", "b", ".">>
dB == <<"b", ".">>

QDomains == {dAB, dXB, dB}
QTypes == {TypeA, TypeAAAA, TypeSOA}

Requests == {NoQuestion} \cup {Request(d, t) : d \in QDomains, t \in QTypes}

\* rules as written in the YAML file, before LoadConfig
ruleResolveA ==
    DNSRecord(<<"a", ".", "b">>, <<"a">>, "192.168.1.100", <<"192.168.1.101">>,
              0, 0, 0, 0, "", "")
ruleForwardA ==
    DNSRecord(<<"*", ".", "b">>, <<"A">>, "", <<>>, 0, 0, 0, 0, "", "forward")
ruleResolveAAAA ==
    DNSRecord(<<"*">>, <<"A", "A", "A", "A">>, "::1", <<>>, 60, 0, 0, 0, "", "resolve")

RawRules == {ruleResolveA, ruleForwardA, ruleResolveAAAA}

SeqsUpTo(S, n) == UNION {[1..k -> S] : k \in 0..n}

Files ==
    {NoFile} \cup {ConfigFile(rs, ZeroUpstream) : rs \in SeqsUpTo(RawRules, MaxRules)}

recExact == DnsRecord(<<"10.0.0.5">>, <<>>, <<>>, <<>>, "", <<>>, <<>>, <<>>)
recStar == DnsRecord(<<"10.0.0.1">>, <<"::1">>, <<>>, <<>>, "", <<>>, <<>>, <<>>)

RecordStores ==
    {<<>>,
     <<"a", ".", "b">> :> recExact,
     Star :> recStar,
     (<<"a", ".", "b">> :> recExact) @@ (Star :> recStar)}

ServerLists == {<<>>, <<"1.1.1.1:53">>}
TwoServers == <<"1.1.1.1:53", "8.8.8.8:53">>

\* the local tiers: rule files, record stores, cache switch
LocalScenarios ==
    {[opts |-> [DefaultOptions EXCEPT !.DnsRecords = recs,
                                      !.UseDiskCache = dc,
                                      !.UpstreamRetries = 1],
      file |-> f] : recs \in RecordStores, dc \in BOOLEAN, f \in Files}

\* the upstream tier: server lists, retry counts, cache switch
UpstreamScenarios ==
    {[opts |-> [DefaultOptions EXCEPT !.UpstreamServers = srv,
                                      !.UpstreamRetries = n,
                                      !.UseDiskCache = dc],
      file |-> f] :
        srv \in ServerLists, n \in (-1)..MaxRetries, dc \in BOOLEAN,
        f \in {NoFile, ConfigFile(<<ruleForwardA>>, ZeroUpstream)}}

\* rules LoadConfig rejects, and two more it accepts
ruleBadAction ==
    DNSRecord(<<"a", ".", "b">>, <<"A">>, "10.0.0.1", <<>>, 0, 0, 0, 0, "", "drop")
ruleNoValue ==
    DNSRecord(<<"a", ".", "b">>, <<"A">>, "", <<>>, 0, 0, 0, 0, "", "")
ruleResolveSOA ==
    DNSRecord(<<"a", ".", "b">>, <<"s", "o", "a">>, "rdata", <<>>, 0, 0, 0, 0, "", "resolve")
ruleSRVNoPort ==
    DNSRecord(<<"a", ".", "b">>, <<"S", "R", "V">>, "", <<>>, 0, 0, 0, 0, "t.b.", "resolve")
ruleTXTNoValue ==
    DNSRecord(<<"a", ".", "b">>, <<"T", "X", "T">>, "", <<>>, 0, 0, 0, 0, "", "resolve")
ruleResolveMX ==
    DNSRecord(<<"a", ".", "b">>, <<"M", "X">>, "", <<>>, 0, 0, 0, 0, "m.b.", "resolve")
ruleForwardSOA ==
    DNSRecord(<<"*">>, <<"S", "O", "A">>, "", <<>>, 0, 0, 0, 0, "", "forward")

MalformedRules ==
    {ruleBadAction, ruleNoValue, ruleResolveSOA, ruleSRVNoPort, ruleTXTNoValue}

LoadFiles ==
    {BadFile} \cup
    {ConfigFile(rs, ZeroUpstream) :
        rs \in SeqsUpTo(MalformedRules \cup {ruleResolveMX, ruleForwardSOA}, MaxRules)}

\* the loading of the rule file: files New rejects, files it accepts
LoadScenarios ==
    {[opts |-> [DefaultOptions EXCEPT !.DnsRecords = Star :> recStar,
                                      !.UpstreamRetries = 1],
      file |-> f] : f \in LoadFiles}

\* the fallback tier: fallback switch and default addresses
FallbackScenarios ==
    {[opts |-> [DefaultOptions EXCEPT !.UpstreamServers = srv,
                                      !.FallbackResponse = fb,
                                      !.DefaultA = da,
                                      !.DefaultAAAA = daaaa],
      file |-> NoFile] :
        srv \in {<<>>, <<"1.1.1.1:53">>}, fb \in BOOLEAN,
        da \in {"", "127.0.0.1"}, daaaa \in {"", "::1"}}

\* the choice of the upstream server: two servers, no cache
ServerScenarios ==
    {[opts |-> [DefaultOptions EXCEPT !.UpstreamServers = TwoServers,
                                      !.UpstreamRetries = n,
                                      !.UseDiskCache = FALSE],
      file |-> NoFile] : n \in 1..MaxRetries}

Scenarios ==
    LocalScenarios \cup UpstreamScenarios \cup FallbackScenarios
    \cup ServerScenarios \cup LoadScenarios

\* what client.Exchange can return for request r
DirectData(qtype) ==
    CASE qtype = TypeA -> ParseIP("93.184.216.34")
      [] qtype = TypeAAAA -> ParseIP("0:0:0:0:0:0:0:1")
      [] OTHER -> "rdata"

UpstreamReplies(r) ==
    LET name == r.Question[1].Name
        qtype == r.Question[1].Qtype
    IN  {[SetReply(r) EXCEPT !.Rcode = 3],
         [SetReply(r) EXCEPT !.Answer = <<RR(name, qtype, 3600, DirectData(qtype))>>],
         [SetReply(r) EXCEPT !.Authoritative = TRUE,
                             !.Answer = <<RR(name, TypeCNAME, 3600, "c.b.")>>]}

ExchangeResults(r) ==
    {[err |-> TRUE, nil |-> TRUE, msg |-> SetReply(r)],
     [err |-> FALSE, nil |-> TRUE, msg |-> SetReply(r)]}
    \cup {[err |-> FALSE, nil |-> FALSE, msg |-> m] : m \in UpstreamReplies(r)}

Range(f) == {f[x] : x \in DOMAIN f}

(***************************************************************************)
(* The server: one handler goroutine per query.                            *)
(***************************************************************************)
Handlers == {1}

\* main has built the options; tinydns.New has not run yet
InitFrom(scenarios) ==
    /\ \E sc \in scenarios :
          /\ options = sc.opts
          /\ boot = [state |-> "new", file |-> sc.file]
    /\ config = NoConfig
    /\ hm = <<>>
    /\ pc = [p \in Handlers |-> "idle"]
    /\ req = [p \in Handlers |-> NoQuestion]
    /\ attempt = [p \in Handlers |-> 0]
    /\ log = [p \in Handlers |-> <<>>]
    /\ served = 0

Init == InitFrom(Scenarios)

\* main: tinydns.New, then Fatal on its error or tdns.Run
main ==
    /\ boot.state = "new"
    /\ LET t == New(options, boot.file)
       IN  /\ boot' = [boot EXCEPT !.state = IF t.err THEN "failed" ELSE "running"]
           /\ options' = t.options
           /\ config' = t.config
    /\ UNCHANGED <<hm, pc, req, attempt, log, served>>

\* ServeDNS up to the call of handleDNSQuery or forwardToUpstream
ServeDNS(p) ==
    /\ boot.state = "running"
    /\ pc[p] \in {"idle", "done"}
    /\ served < MaxQueries
    /\ \E r \in Requests :
          LET out == ServeDNSOutcome(config, r)
          IN  /\ req' = [req EXCEPT ![p] = r]
              /\ log' = [log EXCEPT ![p] = out.events]
              /\ pc' = [pc EXCEPT ![p] = out.next]
    /\ attempt' = [attempt EXCEPT ![p] = 0]
    /\ served' = served + 1
    /\ UNCHANGED <<options, config, hm, boot>>

handleDNSQuery(p) ==
    /\ pc[p] = "handleDNSQuery"
    /\ LET out == handleDNSQueryOutcome(options, hm, req[p])
       IN  /\ log' = [log EXCEPT ![p] = @ \o out.events]
           /\ pc' = [pc EXCEPT ![p] = out.next]
    /\ UNCHANGED <<options, config, hm, req, attempt, served, boot>>

\* variant: the server list is rotated, so that the next query starts with
\* another server
forwardToUpstreamRotatesServers(p) ==
    /\ pc[p] = "forwardToUpstream"
    /\ pc' = [pc EXCEPT ![p] = IF Len(options.UpstreamServers) = 0
                               THEN "sendFallbackOrEmpty" ELSE "exchange"]
    /\ options' = [options EXCEPT !.UpstreamServers =
                       IF Len(@) > 1 THEN Tail(@) \o <<Head(@)>> ELSE @]
    /\ UNCHANGED <<config, hm, req, attempt, log, served, boot>>

\* forwardToUpstream up to the retry loop
forwardToUpstream(p) ==
    /\ pc[p] = "forwardToUpstream"
    /\ pc' = [pc EXCEPT ![p] = IF Len(options.UpstreamServers) = 0
                               THEN "sendFallbackOrEmpty" ELSE "exchange"]
    /\ UNCHANGED <<options, config, hm, req, attempt, log, served, boot>>

\* one iteration of the retry loop of forwardToUpstream
upstreamAttempt(p) ==
    /\ pc[p] = "exchange"
    /\ LET r == req[p]
           retries == effectiveRetries(options.UpstreamRetries)
       IN  IF ~loopContinues(attempt[p], retries)
           THEN /\ pc' = [pc EXCEPT ![p] = "sendFallbackOrEmpty"]
                /\ UNCHANGED <<hm, attempt, log>>
           ELSE \E upstreamServer \in Range(options.UpstreamServers),
                   res \in ExchangeResults(r) :
                  IF exchangeSucceeded(res)
                  THEN LET key == cacheKey(r.Question[1].Name,
                                           TypeToString(r.Question[1].Qtype))
                           bytes == GobEncode(extractDnsRecord(res.msg))
                           cached == shouldCache(options, res.msg)
                       IN  /\ log' = [log EXCEPT ![p] = @ \o
                                  <<EvExchange(upstreamServer, TRUE, res.msg),
                                    EvWrite("upstream", upstreamResponse(r, res.msg))>>
                                  \o (IF cached THEN <<EvCacheSet(key, bytes)>>
                                      ELSE <<>>)]
                           /\ hm' = IF cached THEN hmSet(hm, key, bytes) ELSE hm
                           /\ pc' = [pc EXCEPT ![p] = nextAfterAttempt(TRUE)]
                           /\ UNCHANGED attempt
                  ELSE /\ log' = [log EXCEPT ![p] = @ \o
                              <<EvExchange(upstreamServer, FALSE, SetReply(r))>>
                              \o (IF sleepsAfterFailure(attempt[p], retries)
                                  THEN <<EvSleep>> ELSE <<>>)]
                       /\ attempt' = [attempt EXCEPT ![p] = @ + 1]
                       /\ pc' = [pc EXCEPT ![p] = nextAfterAttempt(FALSE)]
                       /\ UNCHANGED hm
    /\ UNCHANGED <<options, config, req, served, boot>>

sendFallbackOrEmpty(p) ==
    /\ pc[p] = "sendFallbackOrEmpty"
    /\ LET msg == sendFallbackOrEmptyMsg(options, req[p])
       IN  log' = [log EXCEPT ![p] = Append(@, EvWrite(fallbackTier(msg), msg))]
    /\ pc' = [pc EXCEPT ![p] = "done"]
    /\ UNCHANGED <<options, config, hm, req, attempt, served, boot>>

Next ==
    \/ main
    \/ \E p \in Handlers :
        \/ ServeDNS(p)
        \/ handleDNSQuery(p)
        \/ forwardToUpstream(p)
        \/ upstreamAttempt(p)
        \/ sendFallbackOrEmpty(p)

Spec == Init /\ [][Next]_vars

(***************************************************************************)
(* The disk store under the cache is outside the process: an entry may     *)
(* come back as bytes the gob decoder rejects.                             *)
(***************************************************************************)
Undecodable == [valid |-> FALSE, fields |-> <<>>]

corruptEntry ==
    /\ boot.state = "running"
    /\ \E key \in DOMAIN hm :
          /\ hm[key].valid
          /\ hm' = [hm EXCEPT ![key] = Undecodable]
    /\ UNCHANGED <<options, config, pc, req, attempt, log, served, boot>>

NextFault == Next \/ corruptEntry

\* the runs in which queries reach the cache, the upstream and the fallback
InitFault == InitFrom(UpstreamScenarios \cup FallbackScenarios \cup ServerScenarios)

FaultSpec == InitFault /\ [][NextFault]_vars

\* a handler that has started keeps running: every call it makes returns
HandlerStep ==
    \E p \in Handlers :
        \/ handleDNSQuery(p)
        \/ forwardToUpstream(p)
        \/ upstreamAttempt(p)
        \/ sendFallbackOrEmpty(p)

\* runs without a rule file: every supported query passes the cache tier
InitLive ==
    InitFrom({sc \in UpstreamScenarios : ~sc.file.present}
             \cup {sc \in FallbackScenarios :
                      sc.opts.FallbackResponse /\ sc.opts.DefaultAAAA = ""}
             \cup ServerScenarios)

LiveSpec == InitLive /\ [][NextFault]_vars /\ WF_vars(HandlerStep)

(***************************************************************************)
(* Vocabulary of the properties.                                           *)
(***************************************************************************)
HasQuestion(p) == Len(req[p].Question) > 0
Serving(p) == pc[p] # "idle" /\ HasQuestion(p)
Finished(p) == pc[p] = "done" /\ HasQuestion(p)

QName(p) == req[p].Question[1].Name
QType(p) == req[p].Question[1].Qtype
QLookup(p) == TrimSuffix(QName(p), <<".">>)
QKey(p) == QName(p) \o TypeToString(QType(p))

Events(p, kind) == SelectSeq(log[p], LAMBDA e : e.ev = kind)
Count(p, kind) == Len(Events(p, kind))
Positions(p, kind) == {i \in 1..Len(log[p]) : log[p][i].ev = kind}
Writes(p) == Events(p, "write")
Exchanges(p) == Events(p, "exchange")
FailedExchanges(p) == SelectSeq(Exchanges(p), LAMBDA e : ~e.ok)
OkExchanges(p) == SelectSeq(Exchanges(p), LAMBDA e : e.ok)

AnswerData(msg) == [i \in 1..Len(msg.Answer) |-> msg.Answer[i].Data]

\* the rules of the loaded config that match the query of p, by index
MatchingRules(p) ==
    {i \in 1..Len(config.Records) :
        /\ matchesDomain(QLookup(p), config.Records[i].Domain)
        /\ config.Records[i].Type = TypeToString(QType(p))}

Lowest(S) == CHOOSE i \in S : \A j \in S : i <= j

FirstRuleIs(p, action) ==
    /\ MatchingRules(p) # {}
    /\ config.Records[Lowest(MatchingRules(p))].Action = action

\* the addresses a rule holds for an A or AAAA answer
RuleAddresses(rule) ==
    (IF rule.Value # "" THEN {ParseIP(rule.Value)} ELSE {})
    \cup {ParseIP(rule.Values[i]) : i \in 1..Len(rule.Values)}

\* the records of one type held by an answer set, as answer data
TypedData(dnsRecord, qtype) ==
    CASE qtype = TypeA -> [i \in 1..Len(dnsRecord.A) |-> ParseIP(dnsRecord.A[i])]
      [] qtype = TypeAAAA ->
           [i \in 1..Len(dnsRecord.AAAA) |-> ParseIP(dnsRecord.AAAA[i])]
      [] OTHER -> <<>>

MaxAttempts ==
    IF options.UpstreamRetries > 1 THEN options.UpstreamRetries ELSE 1

(***************************************************************************)
(* C1: when the first rule matching the query (pattern and type) has       *)
(* action resolve, the handler writes one response whose answer records    *)
(* carry the queried name and type, the rule's TTL and only addresses of   *)
(* the rule, and it does nothing else: no Record Store lookup, no cache    *)
(* get or set, no upstream exchange.                                       *)
(***************************************************************************)
C1_ResolveRuleAnswersAlone ==
    \A p \in Handlers :
        (Serving(p) /\ FirstRuleIs(p, "resolve")) =>
            LET rule == config.Records[Lowest(MatchingRules(p))]
            IN  /\ pc[p] = "done"
                /\ Len(log[p]) = 1
                /\ log[p][1].ev = "write"
                /\ log[p][1].tier = "config"
                /\ log[p][1].msg.Answer # <<>>
                /\ \A i \in 1..Len(log[p][1].msg.Answer) :
                      LET rr == log[p][1].msg.Answer[i]
                      IN  /\ rr.Name = QName(p)
                          /\ rr.Rrtype = QType(p)
                          /\ rr.Ttl = rule.TTL
                          /\ rr.Data \in RuleAddresses(rule)

\* a resolve rule answered although the Record Store holds the name and an
\* upstream server is configured
C1_Witness ==
    \E p \in Handlers :
        /\ Finished(p)
        /\ FirstRuleIs(p, "resolve")
        /\ QLookup(p) \in DOMAIN options.DnsRecords
        /\ Len(options.UpstreamServers) > 0
        /\ options.UseDiskCache

(***************************************************************************)
(* C2: when the first rule matching the query has action forward, the      *)
(* handler makes no Record Store lookup and no cache read, and every       *)
(* response it writes comes from the upstream tier or from fallback/empty. *)
(***************************************************************************)
C2_ForwardRuleSkipsLocalTiers ==
    \A p \in Handlers :
        (Serving(p) /\ FirstRuleIs(p, "forward")) =>
            /\ pc[p] \in {"forwardToUpstream", "exchange", "sendFallbackOrEmpty", "done"}
            /\ Count(p, "storeGet") = 0
            /\ Count(p, "cacheGet") = 0
            /\ \A i \in 1..Len(Writes(p)) :
                  Writes(p)[i].tier \in {"upstream", "fallback", "empty"}
            /\ pc[p] = "done" => Len(Writes(p)) = 1

\* a forwarded query finished by fallback/empty while both the Record Store
\* and the cache hold an entry for it
C2_Witness ==
    \E p \in Handlers :
        /\ Finished(p)
        /\ FirstRuleIs(p, "forward")
        /\ QLookup(p) \in DOMAIN options.DnsRecords
        /\ QKey(p) \in DOMAIN hm
        /\ Count(p, "cacheSet") = 0
        /\ Writes(p)[1].tier = "empty"

(***************************************************************************)
(* C3: the rule applied to a query is the lowest-index rule whose pattern  *)
(* matches the domain and whose type equals the query type: a resolve rule *)
(* answers with its own fields, a forward rule sends the query upstream    *)
(* without a local answer, and with no matching rule no config answer is   *)
(* written and a query of a supported type goes on to the Record Store.    *)
(***************************************************************************)
C3_FirstMatchingRuleDecides ==
    \A p \in Handlers :
        Serving(p) =>
            LET M == MatchingRules(p)
                rule == config.Records[Lowest(M)]
                configWrites == SelectSeq(Writes(p), LAMBDA e : e.tier = "config")
            IN  /\ (M # {} /\ rule.Action = "resolve") =>
                      log[p] = <<EvWrite("config",
                                   createResponseFromConfig(req[p], QName(p), rule,
                                                            QType(p)))>>
                /\ (M # {} /\ rule.Action = "forward") =>
                      /\ configWrites = <<>>
                      /\ Count(p, "storeGet") = 0
                      /\ pc[p] # "handleDNSQuery"
                /\ M = {} =>
                      /\ configWrites = <<>>
                      /\ QType(p) \in SupportedTypes =>
                            \/ pc[p] = "handleDNSQuery"
                            \/ (log[p] # <<>> /\ log[p][1].ev = "storeGet")

\* two rules match the query and ask for different actions
C3_Witness ==
    \E p \in Handlers :
        /\ Finished(p)
        /\ \E i, j \in MatchingRules(p) :
              config.Records[i].Action # config.Records[j].Action

(***************************************************************************)
(* C4: a query of a supported type with no matching rule is answered from  *)
(* the Record Store entry of the exact domain (trailing dot stripped) when *)
(* there is one, else from the "*" entry when there is one; the answer     *)
(* holds exactly the entry's records of the queried type, in order, and    *)
(* the handler reads no cache entry and makes no upstream exchange.        *)
(***************************************************************************)
C4_RecordStoreExactThenStar ==
    \A p \in Handlers :
        (/\ Serving(p)
         /\ MatchingRules(p) = {}
         /\ QType(p) \in SupportedTypes
         /\ pc[p] # "handleDNSQuery") =>
            LET recs == options.DnsRecords
                last == log[p][Len(log[p])]
            IN  /\ QLookup(p) \in DOMAIN recs =>
                      /\ pc[p] = "done"
                      /\ Len(log[p]) = 2
                      /\ log[p][1] = EvStoreGet(QLookup(p))
                      /\ last.ev = "write"
                      /\ last.msg.Question = req[p].Question
                      /\ AnswerData(last.msg) = TypedData(recs[QLookup(p)], QType(p))
                      /\ (QName(p) = dAB /\ QType(p) = TypeA /\ recs[QLookup(p)] = recExact)
                            => AnswerData(last.msg) = <<[bytes |-> "10.0.0.5"]>>
                /\ (QLookup(p) \notin DOMAIN recs /\ Star \in DOMAIN recs) =>
                      /\ pc[p] = "done"
                      /\ Len(log[p]) = 3
                      /\ log[p][1] = EvStoreGet(QLookup(p))
                      /\ log[p][2] = EvStoreGet(Star)
                      /\ last.ev = "write"
                      /\ last.msg.Question = req[p].Question
                      /\ AnswerData(last.msg) = TypedData(recs[Star], QType(p))

\* an exact entry answered although the "*" entry exists too
C4_Witness ==
    \E p \in Handlers :
        /\ Finished(p)
        /\ MatchingRules(p) = {}
        /\ QType(p) = TypeA
        /\ QLookup(p) \in DOMAIN options.DnsRecords
        /\ Star \in DOMAIN options.DnsRecords
        /\ options.DnsRecords[Star] # options.DnsRecords[QLookup(p)]
        /\ Len(Writes(p)) = 1
        /\ Len(Writes(p)[1].msg.Answer) = 1

(***************************************************************************)
(* C5: with the disk cache enabled and neither an exact nor a "*" Record   *)
(* Store entry, handleDNSQuery reads the cache entry of (domain, type)     *)
(* before any forwarding; when the entry exists and decodes, the response  *)
(* is built from it and the query makes no upstream exchange, otherwise    *)
(* the query is forwarded.                                                 *)
(***************************************************************************)
C5_CacheConsultedStep(p) ==
    (/\ pc[p] = "handleDNSQuery"
     /\ pc'[p] # "handleDNSQuery"
     /\ options.UseDiskCache
     /\ QLookup(p) \notin DOMAIN options.DnsRecords
     /\ Star \notin DOMAIN options.DnsRecords) =>
        LET hit == QKey(p) \in DOMAIN hm /\ ~GobDecode(hm[QKey(p)]).err
            last == log'[p][Len(log'[p])]
        IN  /\ Len(log'[p]) >= 3
            /\ log'[p][3] = EvCacheGet(QKey(p))
            /\ \A i \in 1..Len(log'[p]) : log'[p][i].ev # "exchange"
            /\ hit => /\ pc'[p] = "done"
                      /\ last.ev = "write"
                      /\ last.tier = "cache"
                      /\ AnswerData(last.msg) =
                            TypedData(GobDecode(hm[QKey(p)]).dnsRecord, QType(p))
            /\ ~hit => /\ pc'[p] = "forwardToUpstream"
                       /\ last = EvCacheGet(QKey(p))

C5_CacheBeforeExchange ==
    \A p \in Handlers :
        \A c \in Positions(p, "cacheGet"), e \in Positions(p, "exchange") : c < e

C5_CacheConsultedBeforeForwarding ==
    /\ [][\A p \in Handlers : C5_CacheConsultedStep(p)]_vars
    /\ []C5_CacheBeforeExchange

\* a query answered from a cache entry that holds a record of its type
C5_Witness ==
    \E p \in Handlers :
        /\ Finished(p)
        /\ QType(p) \in {TypeA, TypeAAAA}
        /\ Len(Writes(p)) = 1
        /\ Writes(p)[1].tier = "cache"
        /\ Len(Writes(p)[1].msg.Answer) = 1
        /\ Count(p, "exchange") = 0

(***************************************************************************)
(* C6: the cache changes only in the step of a successful upstream         *)
(* exchange whose response has at least one answer record, with the disk   *)
(* cache enabled, and the entry written is the answer set extracted from   *)
(* that response; so every cache entry was extracted from an upstream      *)
(* response with at least one answer record, and a query that was answered *)
(* by a rule, the Record Store, the cache, the fallback or an empty        *)
(* upstream response wrote nothing.                                        *)
(***************************************************************************)
C6_CacheWriteStep ==
    hm' # hm =>
        \E p \in Handlers :
            LET n == Len(log'[p])
            IN  /\ pc[p] = "exchange"
                /\ options.UseDiskCache
                /\ n >= 3
                /\ log'[p][n - 2].ev = "exchange"
                /\ log'[p][n - 2].ok
                /\ Len(log'[p][n - 2].msg.Answer) >= 1
                /\ log'[p][n - 1] = EvWrite("upstream", log'[p][n - 2].msg)
                /\ log'[p][n] = EvCacheSet(QKey(p),
                                    GobEncode(extractDnsRecord(log'[p][n - 2].msg)))
                /\ DOMAIN hm' = DOMAIN hm \cup {QKey(p)}
                /\ hm'[QKey(p)] = log'[p][n].value
                /\ \A k \in DOMAIN hm \ {QKey(p)} : hm'[k] = hm[k]

C6_CacheEntriesFromUpstream ==
    /\ \A k \in DOMAIN hm :
          /\ options.UseDiskCache
          /\ \E r \in Requests \ {NoQuestion} :
                \E m \in UpstreamReplies(r) :
                    /\ Len(m.Answer) >= 1
                    /\ k = r.Question[1].Name \o TypeToString(r.Question[1].Qtype)
                    /\ hm[k] = GobEncode(extractDnsRecord(m))
    /\ \A p \in Handlers :
          Count(p, "cacheSet") > 0 =>
              /\ options.UseDiskCache
              /\ \E i \in 1..Len(OkExchanges(p)) :
                    Len(OkExchanges(p)[i].msg.Answer) >= 1
              /\ \A i \in 1..Len(Writes(p)) : Writes(p)[i].tier = "upstream"

C6_CacheWrittenOnlyByAnsweredUpstream ==
    /\ [][C6_CacheWriteStep]_vars
    /\ []C6_CacheEntriesFromUpstream

\* an empty but successful upstream response, cache enabled, left no entry
C6_Witness ==
    \E p \in Handlers :
        /\ Finished(p)
        /\ options.UseDiskCache
        /\ Len(OkExchanges(p)) = 1
        /\ OkExchanges(p)[1].msg.Answer = <<>>
        /\ QKey(p) \notin DOMAIN hm

(***************************************************************************)
(* C7: no step removes a cache key; the value of a key changes only in the *)
(* step of a successful upstream resolution for the same (domain, type);   *)
(* and a query that reaches the cache tier while its key is cached is      *)
(* answered from that entry without an upstream exchange.                  *)
(***************************************************************************)
C7_CacheStep ==
    /\ \A k \in DOMAIN hm :
          /\ k \in DOMAIN hm'
          /\ hm'[k] # hm[k] =>
                \E p \in Handlers :
                    /\ pc[p] = "exchange"
                    /\ QKey(p) = k
                    /\ log'[p][Len(log'[p])] = EvCacheSet(k, hm'[k])
    /\ \A p \in Handlers :
          (/\ pc[p] = "handleDNSQuery"
           /\ pc'[p] # "handleDNSQuery"
           /\ QLookup(p) \notin DOMAIN options.DnsRecords
           /\ Star \notin DOMAIN options.DnsRecords
           /\ QKey(p) \in DOMAIN hm) =>
              /\ pc'[p] = "done"
              /\ log'[p][Len(log'[p])].ev = "write"
              /\ log'[p][Len(log'[p])].tier = "cache"
              /\ \A i \in 1..Len(log'[p]) : log'[p][i].ev # "exchange"
              /\ hm' = hm

C7_CacheEntriesNeverExpire == [][C7_CacheStep]_vars

\* the second query of a run, answered from the entry the first one cached
C7_Witness ==
    \E p \in Handlers :
        /\ Finished(p)
        /\ served = 2
        /\ QKey(p) \in DOMAIN hm
        /\ Count(p, "cacheGet") = 1
        /\ Count(p, "exchange") = 0
        /\ Len(options.UpstreamServers) > 0

(***************************************************************************)
(* C8: a query makes at most max(1, UpstreamRetries) upstream exchanges;   *)
(* with a non-empty server list a query that reached the upstream tier     *)
(* made at least one, and exactly max(1, UpstreamRetries) when all failed; *)
(* with an empty server list it makes none and ends in fallback/empty.     *)
(***************************************************************************)
C8_RetryCountClamped ==
    \A p \in Handlers :
        Serving(p) =>
            LET reached == \E i \in 1..Len(Writes(p)) :
                               Writes(p)[i].tier \in {"upstream", "fallback", "empty"}
            IN  /\ Count(p, "exchange") <= MaxAttempts
                /\ Len(options.UpstreamServers) = 0 => Count(p, "exchange") = 0
                /\ (Finished(p) /\ reached /\ Len(options.UpstreamServers) = 0) =>
                      Writes(p)[1].tier \in {"fallback", "empty"}
                /\ (Finished(p) /\ reached /\ Len(options.UpstreamServers) > 0) =>
                      /\ Count(p, "exchange") >= 1
                      /\ OkExchanges(p) = <<>> =>
                            /\ Count(p, "exchange") = MaxAttempts
                            /\ Writes(p)[1].tier \in {"fallback", "empty"}

\* a retry count of 0 or less still made one attempt
C8_Witness ==
    \E p \in Handlers :
        /\ Finished(p)
        /\ options.UpstreamRetries <= 0
        /\ Len(options.UpstreamServers) > 0
        /\ Count(p, "exchange") = 1
        /\ OkExchanges(p) = <<>>

(***************************************************************************)
(* C9: a successful exchange is the last exchange of its query, the        *)
(* response written is the message it returned, and the query writes the   *)
(* cache at most once: exactly once when the successful response has at    *)
(* least one answer record and the disk cache is enabled, else not at all. *)
(***************************************************************************)
C9_FirstSuccessEndsRetries ==
    \A p \in Handlers :
        Serving(p) =>
            /\ \A i \in Positions(p, "exchange") :
                  log[p][i].ok =>
                      /\ pc[p] = "done"
                      /\ \A j \in Positions(p, "exchange") : j <= i
                      /\ i < Len(log[p])
                      /\ log[p][i + 1] = EvWrite("upstream", log[p][i].msg)
                      /\ Len(Writes(p)) = 1
            /\ Count(p, "cacheSet") <= 1
            /\ Finished(p) =>
                  (Count(p, "cacheSet") = 1 <=>
                      /\ options.UseDiskCache
                      /\ OkExchanges(p) # <<>>
                      /\ Len(OkExchanges(p)[1].msg.Answer) >= 1)

\* attempts 1 and 2 failed, attempt 3 succeeded and was cached once
C9_Witness ==
    \E p \in Handlers :
        /\ Finished(p)
        /\ options.UpstreamRetries = 3
        /\ Len(Exchanges(p)) = 3
        /\ ~Exchanges(p)[1].ok
        /\ ~Exchanges(p)[2].ok
        /\ Exchanges(p)[3].ok
        /\ Writes(p) = <<EvWrite("upstream", Exchanges(p)[3].msg)>>
        /\ Count(p, "cacheSet") = 1

(***************************************************************************)
(* C10: a backoff sleep follows a failed exchange exactly when another     *)
(* exchange of the same query follows it: every sleep stands between a     *)
(* failed exchange and the next exchange, a query whose first k attempts   *)
(* failed before a success slept k times, and a query whose attempts all   *)
(* failed slept one time less than it made attempts.                       *)
(***************************************************************************)
C10_SleepOnlyBetweenAttempts ==
    \A p \in Handlers :
        Serving(p) =>
            /\ \A i \in Positions(p, "sleep") :
                  /\ i > 1
                  /\ log[p][i - 1].ev = "exchange"
                  /\ ~log[p][i - 1].ok
                  /\ IF i < Len(log[p])
                     THEN log[p][i + 1].ev = "exchange"
                     ELSE pc[p] = "exchange" /\ attempt[p] < MaxAttempts
            /\ \A i, j \in Positions(p, "exchange") :
                  i < j => log[p][i + 1].ev = "sleep"
            /\ Finished(p) =>
                  Count(p, "sleep") =
                      IF OkExchanges(p) # <<>> \/ Exchanges(p) = <<>>
                      THEN Len(FailedExchanges(p))
                      ELSE MaxAttempts - 1

\* two backoffs: attempts 1 and 2 failed, attempt 3 succeeded
C10_Witness ==
    \E p \in Handlers :
        /\ Finished(p)
        /\ Len(Exchanges(p)) = 3
        /\ Exchanges(p)[3].ok
        /\ Count(p, "sleep") = 2
        /\ log[p][Len(log[p]) - 1].ev = "write"

(***************************************************************************)
(* C11: when the upstream tier is exhausted (no server configured, or      *)
(* every attempt failed) the one response written has no answer record if  *)
(* FallbackResponse is off, or the query type is neither A nor AAAA, or    *)
(* the default address of the queried type is ""; otherwise it has exactly *)
(* one record of the queried name and type, TTL 0, holding that default    *)
(* address.                                                                *)
(***************************************************************************)
LocalTiers == {"config", "memory", "wildcard", "cache"}

DefaultFor(qtype) ==
    CASE qtype = TypeA -> options.DefaultA
      [] qtype = TypeAAAA -> options.DefaultAAAA
      [] OTHER -> ""

Exhausted(p) ==
    /\ Finished(p)
    /\ OkExchanges(p) = <<>>
    /\ Len(Writes(p)) > 0
    /\ Writes(p)[1].tier \notin LocalTiers

C11_FallbackAnswer ==
    \A p \in Handlers :
        Exhausted(p) =>
            LET msg == Writes(p)[1].msg
            IN  /\ Len(Writes(p)) = 1
                /\ Writes(p)[1].tier \in {"fallback", "empty"}
                /\ msg.Rcode = 0
                /\ IF \/ ~options.FallbackResponse
                      \/ QType(p) \notin {TypeA, TypeAAAA}
                      \/ DefaultFor(QType(p)) = ""
                   THEN msg.Answer = <<>>
                   ELSE /\ Len(msg.Answer) = 1
                        /\ msg.Answer[1].Name = QName(p)
                        /\ msg.Answer[1].Rrtype = QType(p)
                        /\ msg.Answer[1].Ttl = 0
                        /\ IPString(msg.Answer[1].Data) = DefaultFor(QType(p))

\* fallback on, defaultA 127.0.0.1, no defaultAAAA: an AAAA query whose
\* attempts all failed got zero answer records
C11_Witness ==
    \E p \in Handlers :
        /\ Exhausted(p)
        /\ options.FallbackResponse
        /\ options.DefaultA = "127.0.0.1"
        /\ options.DefaultAAAA = ""
        /\ QType(p) = TypeAAAA
        /\ Len(FailedExchanges(p)) = MaxAttempts
        /\ Writes(p)[1].msg.Answer = <<>>

(***************************************************************************)
(* C12: every response written is marked authoritative, whatever branch    *)
(* wrote it (config, memory, wildcard, cache, fallback, empty), except the *)
(* upstream response forwarded on upstream success, which carries the      *)
(* authority bit the upstream returned.                                    *)
(***************************************************************************)
C12_AuthoritativeOnEveryBranch ==
    \A p \in Handlers :
        \A i \in Positions(p, "write") :
            IF log[p][i].tier = "upstream"
            THEN log[p][i].msg.Authoritative = log[p][i - 1].msg.Authoritative
            ELSE log[p][i].msg.Authoritative

(***************************************************************************)
(* C13: on upstream success the message written to the client is the       *)
(* message the exchange returned, unmodified: same answer records (kinds   *)
(* outside the supported set included), same response code, same authority *)
(* bit; it is not a response rebuilt from the extracted answer set.        *)
(***************************************************************************)
C13_UpstreamResponseVerbatim ==
    \A p \in Handlers :
        \A i \in Positions(p, "write") :
            log[p][i].tier = "upstream" =>
                /\ i > 1
                /\ log[p][i - 1].ev = "exchange"
                /\ log[p][i - 1].ok
                /\ log[p][i].msg.Answer = log[p][i - 1].msg.Answer
                /\ log[p][i].msg.Rcode = log[p][i - 1].msg.Rcode
                /\ log[p][i].msg.Authoritative = log[p][i - 1].msg.Authoritative
                /\ log[p][i].msg \in UpstreamReplies(req[p])

\* an SOA answer, a kind extractDnsRecord ignores, reached the client
C13_Witness ==
    \E p \in Handlers :
        /\ Finished(p)
        /\ Len(OkExchanges(p)) = 1
        /\ Len(OkExchanges(p)[1].msg.Answer) = 1
        /\ OkExchanges(p)[1].msg.Answer[1].Rrtype = TypeSOA
        /\ extractDnsRecord(OkExchanges(p)[1].msg) = EmptyDnsRecord
        /\ Writes(p) = <<EvWrite("upstream", OkExchanges(p)[1].msg)>>

UpstreamTiers == {"upstream", "fallback", "empty"}

\* the tier that must answer the finished query of p
AnsweringTier(p) ==
    IF FirstRuleIs(p, "resolve") THEN {"config"}
    ELSE IF FirstRuleIs(p, "forward") \/ QType(p) \notin SupportedTypes
    THEN UpstreamTiers
    ELSE IF QLookup(p) \in DOMAIN options.DnsRecords THEN {"memory"}
    ELSE IF Star \in DOMAIN options.DnsRecords THEN {"wildcard"}
    ELSE IF /\ options.UseDiskCache
            /\ QKey(p) \in DOMAIN hm
            /\ Count(p, "cacheSet") = 0
            /\ ~GobDecode(hm[QKey(p)]).err
    THEN {"cache"}
    ELSE UpstreamTiers

C15_UnsupportedTypesBypassLocalTiers ==
    \A p \in Handlers :
        (Serving(p) /\ QType(p) \notin SupportedTypes) =>
            /\ pc[p] # "handleDNSQuery"
            /\ Count(p, "storeGet") = 0
            /\ Count(p, "cacheGet") = 0
            /\ \A i \in 1..Len(Writes(p)) : Writes(p)[i].tier \in UpstreamTiers
            /\ config.loaded =>
                  \A i \in 1..Len(config.Records) :
                      config.Records[i].Type = TypeToString(QType(p)) =>
                          config.Records[i].Action = "forward"

\* an SOA query answered by the upstream although the Record Store has a
\* '*' entry and the rule file has a rule whose pattern matches
C15_Witness ==
    \E p \in Handlers :
        /\ Finished(p)
        /\ QType(p) = TypeSOA
        /\ Star \in DOMAIN options.DnsRecords
        /\ config.loaded
        /\ \E i \in 1..Len(config.Records) :
              matchesDomain(QLookup(p), config.Records[i].Domain)
        /\ Len(Writes(p)) = 1
        /\ Writes(p)[1].tier = "upstream"

(***************************************************************************)
(* C16: a query with an empty question section is dropped: the step that   *)
(* receives it ends its handling at once, writes no response, makes no     *)
(* exchange and leaves the cache, the Record Store and the rule list as    *)
(* they were.                                                              *)
(***************************************************************************)
C16_DropStep ==
    \A p \in Handlers :
        (served' = served + 1 /\ req'[p] = NoQuestion) =>
            /\ pc'[p] = "done"
            /\ log'[p] = <<>>
            /\ hm' = hm
            /\ options' = options
            /\ config' = config

C16_Dropped ==
    \A p \in Handlers :
        (pc[p] # "idle" /\ ~HasQuestion(p)) => (pc[p] = "done" /\ log[p] = <<>>)

C16_EmptyQuestionDropped == [][C16_DropStep]_vars /\ []C16_Dropped

\* a query without a question was dropped after an earlier query had
\* filled the cache
C16_Witness ==
    \E p \in Handlers :
        /\ pc[p] = "done"
        /\ ~HasQuestion(p)
        /\ served = 2
        /\ hm # <<>>
        /\ log[p] = <<>>

(***************************************************************************)
(* C20: a cache entry that cannot be decoded is handled as a miss: the     *)
(* lookup step writes no response and passes the query to the upstream     *)
(* tier, the query ends in one upstream, fallback or empty response, and   *)
(* a later successful exchange with at least one answer record replaces    *)
(* the bad entry by the encoding of the extracted records.                 *)
(***************************************************************************)
BadEntry(key) == key \in DOMAIN hm /\ GobDecode(hm[key]).err

C20_LookupStep ==
    \A p \in Handlers :
        (/\ pc[p] = "handleDNSQuery"
         /\ pc'[p] # "handleDNSQuery"
         /\ QLookup(p) \notin DOMAIN options.DnsRecords
         /\ Star \notin DOMAIN options.DnsRecords
         /\ options.UseDiskCache
         /\ BadEntry(QKey(p))) =>
            /\ pc'[p] = "forwardToUpstream"
            /\ \A i \in 1..Len(log'[p]) : log'[p][i].ev # "write"
            /\ log'[p][Len(log'[p])] = EvDecodeError(QKey(p))
            /\ hm' = hm

C20_OverwriteStep ==
    \A p \in Handlers :
        (/\ pc[p] = "exchange"
         /\ Count(p, "decodeError") = 1
         /\ Len(log'[p]) > Len(log[p])
         /\ log'[p][Len(log[p]) + 1].ok
         /\ Len(log'[p][Len(log[p]) + 1].msg.Answer) >= 1) =>
            /\ QKey(p) \in DOMAIN hm'
            /\ hm'[QKey(p)] =
                  GobEncode(extractDnsRecord(log'[p][Len(log[p]) + 1].msg))
            /\ ~GobDecode(hm'[QKey(p)]).err

C20_AfterDecodeError ==
    \A p \in Handlers :
        Count(p, "decodeError") > 0 =>
            /\ Count(p, "decodeError") = 1
            /\ \A i \in 1..Len(Writes(p)) : Writes(p)[i].tier \in UpstreamTiers
            /\ Finished(p) =>
                  /\ Len(Writes(p)) = 1
                  /\ Writes(p)[1].msg.Rcode =
                        IF OkExchanges(p) # <<>>
                        THEN OkExchanges(p)[1].msg.Rcode ELSE 0
                  /\ Len(options.UpstreamServers) > 0 => Count(p, "exchange") >= 1

C20_UndecodableEntryIsMiss ==
    /\ [][C20_LookupStep /\ C20_OverwriteStep]_vars
    /\ []C20_AfterDecodeError

\* a query met an undecodable entry, was forwarded, and its answered
\* upstream response replaced the entry
C20_Witness ==
    \E p \in Handlers :
        /\ Finished(p)
        /\ Count(p, "decodeError") = 1
        /\ Count(p, "cacheSet") = 1
        /\ Len(OkExchanges(p)[1].msg.Answer) >= 1
        /\ ~BadEntry(QKey(p))
        /\ hm[QKey(p)] = GobEncode(extractDnsRecord(OkExchanges(p)[1].msg))

(***************************************************************************)
(* C17: every query with a question is eventually answered by exactly one  *)
(* response, whatever the upstream returns (answers, errors), whether or   *)
(* not servers are configured and whether or not its cache entry decodes;  *)
(* its handling takes a bounded number of steps, and once it is finished   *)
(* the server is running and accepts the next query.                       *)
(***************************************************************************)
C17_Bounded ==
    \A p \in Handlers :
        /\ Count(p, "exchange") <= MaxAttempts
        /\ Len(log[p]) <= 2 * MaxAttempts + 5
        /\ Len(Writes(p)) <= 1
        /\ Finished(p) => Len(Writes(p)) = 1
        /\ pc[p] # "idle" => boot.state = "running"
        /\ (pc[p] = "done" /\ served < MaxQueries) => ENABLED ServeDNS(p)

C17_Answered ==
    \A p \in Handlers :
        (pc[p] \notin {"idle", "done"}) ~> (Finished(p) /\ Len(Writes(p)) = 1)

C17_EveryQueryAnswered == []C17_Bounded /\ C17_Answered

\* a query whose cache entry did not decode and whose attempts all failed
\* ended in a fallback or empty response
C17_Witness ==
    \E p \in Handlers :
        /\ Finished(p)
        /\ Count(p, "decodeError") = 1
        /\ OkExchanges(p) = <<>>
        /\ Len(FailedExchanges(p)) >= 2
        /\ Len(Writes(p)) = 1
        /\ Writes(p)[1].tier \in {"fallback", "empty"}

(***************************************************************************)
(* The rule that decides a query when patterns match as Match says: the    *)
(* lowest rule whose pattern matches and whose type is the query's.  A     *)
(* resolve rule shows as a config response, a forward rule as a query that *)
(* skips the Record Store, no rule as a query handled by handleDNSQuery.   *)
(***************************************************************************)
RuleDecides(p, Match(_, _)) ==
    LET M == {i \in 1..Len(config.Records) :
                 /\ Match(QLookup(p), config.Records[i].Domain)
                 /\ config.Records[i].Type = TypeToString(QType(p))}
    IN  IF M = {}
        THEN pc[p] = "handleDNSQuery" \/ Count(p, "storeGet") >= 1
        ELSE IF config.Records[Lowest(M)].Action = "resolve"
        THEN Len(Writes(p)) = 1 /\ Writes(p)[1].tier = "config"
        ELSE /\ Count(p, "storeGet") = 0
             /\ pc[p] # "handleDNSQuery"
             /\ \A i \in 1..Len(Writes(p)) : Writes(p)[i].tier \in UpstreamTiers

EndsWith(s, t) ==
    \E k \in 1..(Len(s) + 1) : SubSeq(s, k, Len(s)) = t

IsWildcard(pattern) ==
    Len(pattern) >= 2 /\ pattern[1] = "*" /\ pattern[2] = "."

\* '*.R' matches the domains that end with R
PlainSuffixMatch(query, pattern) ==
    \/ pattern = <<"*">>
    \/ IsWildcard(pattern) /\ EndsWith(query, SubSeq(pattern, 3, Len(pattern)))
    \/ ~IsWildcard(pattern) /\ query = pattern

\* '*.R' matches the domains that end with '.R'
DottedSuffixMatch(query, pattern) ==
    \/ pattern = <<"*">>
    \/ IsWildcard(pattern) /\ EndsWith(query, SubSeq(pattern, 2, Len(pattern)))
    \/ ~IsWildcard(pattern) /\ query = pattern

(***************************************************************************)
(* C18 as stated: the pattern '*' matches every domain and a pattern '*.R' *)
(* matches every domain that ends with the remainder R, with no boundary   *)
(* check ('xfoo.com' matches '*.foo.com'); the rule applied to a query is  *)
(* the one this matching selects.                                          *)
(***************************************************************************)
C18_PlainSuffixDecides ==
    \A p \in Handlers :
        (Serving(p) /\ QType(p) \in SupportedTypes /\ config.loaded) =>
            RuleDecides(p, PlainSuffixMatch)

(***************************************************************************)
(* C18 amended: the pattern '*' matches every domain and a pattern '*.R'   *)
(* matches every domain that ends with '.R', the dot included ('bar.foo.   *)
(* com' matches '*.foo.com', 'xfoo.com' does not); the rule applied to a   *)
(* query is the one this matching selects.                                 *)
(***************************************************************************)
C18_DottedSuffixDecides ==
    \A p \in Handlers :
        (Serving(p) /\ QType(p) \in SupportedTypes /\ config.loaded) =>
            RuleDecides(p, DottedSuffixMatch)

\* 'xb' ends with 'b' but not with '.b': the forward rule '*.b' was not
\* applied and the query went through the Record Store
C18_Witness ==
    \E p \in Handlers :
        /\ Serving(p)
        /\ QLookup(p) = <<"x", "b">>
        /\ QType(p) = TypeA
        /\ config.loaded
        /\ Len(config.Records) = 1
        /\ config.Records[1].Domain = <<"*", ".", "b">>
        /\ config.Records[1].Type = <<"A">>
        /\ config.Records[1].Action = "forward"
        /\ Count(p, "storeGet") >= 1

(***************************************************************************)
(* C19: New either fails, leaving no config and no server, or loads a rule *)
(* list in which every rule is well-formed: its action is resolve or       *)
(* forward, and a resolve rule has a supported type and the fields of its  *)
(* type (A/AAAA: value or values; MX: target; SRV: target and a non-zero   *)
(* port; TXT/CNAME/NS/PTR: value).  One malformed rule anywhere in the     *)
(* file, or an unreadable file, makes New fail, and no query is ever       *)
(* served by a server whose load failed.                                   *)
(***************************************************************************)
SupportedNames == {TypeToString(t) : t \in SupportedTypes}

HasRequiredFields(rule, type) ==
    CASE type \in {TypeToString(TypeA), TypeToString(TypeAAAA)} ->
            rule.Value # "" \/ Len(rule.Values) > 0
      [] type = TypeToString(TypeMX) -> rule.Target # ""
      [] type = TypeToString(TypeSRV) -> rule.Target # "" /\ rule.Port # 0
      [] OTHER -> rule.Value # ""

\* a loaded rule
WellFormed(rule) ==
    /\ rule.Action \in {"resolve", "forward"}
    /\ rule.Action = "resolve" =>
          (rule.Type \in SupportedNames /\ HasRequiredFields(rule, rule.Type))

\* a rule as written in the file: the type in any case, the action
\* possibly left out
WellFormedRaw(rule) ==
    /\ rule.Action \in {"", "resolve", "forward"}
    /\ rule.Action \in {"", "resolve"} =>
          (ToUpper(rule.Type) \in SupportedNames
           /\ HasRequiredFields(rule, ToUpper(rule.Type)))

C19_LoadStep ==
    (boot.state = "new" /\ boot'.state # "new") =>
        LET f == boot.file
            bad == f.present /\
                   (~f.ok \/ \E i \in 1..Len(f.Records) : ~WellFormedRaw(f.Records[i]))
        IN  IF bad
            THEN boot'.state = "failed" /\ ~config'.loaded
            ELSE /\ boot'.state = "running"
                 /\ config'.loaded = f.present
                 /\ Len(config'.Records) = Len(f.Records)

C19_Loaded ==
    /\ config.loaded =>
          /\ boot.state = "running"
          /\ \A i \in 1..Len(config.Records) : WellFormed(config.Records[i])
    /\ boot.state # "running" =>
          /\ ~config.loaded
          /\ served = 0
          /\ \A p \in Handlers : pc[p] = "idle" /\ log[p] = <<>>

C19_OnlyWellFormedRulesLoaded == [][C19_LoadStep]_vars /\ []C19_Loaded

\* a file whose first rule is well-formed and whose second is not was
\* rejected as a whole
C19_Witness ==
    /\ boot.state = "failed"
    /\ boot.file.ok
    /\ Len(boot.file.Records) = 2
    /\ WellFormedRaw(boot.file.Records[1])
    /\ ~WellFormedRaw(boot.file.Records[2])
    /\ ~config.loaded

(***************************************************************************)
(* The cache by itself: the "Cache the response" block of                  *)
(* forwardToUpstream (put) and the "Check cache" block of handleDNSQuery   *)
(* (get), applied in any order to answer sets with records of every kind.  *)
(***************************************************************************)
\* two types dns.TypeToString has no name for (private use)
TypePrivA == 65280
TypePrivB == 65281

CacheRequests ==
    {Request(dAB, t) : t \in {TypeA, TypeMX, TypePrivA, TypePrivB}}
    \cup {Request(dB, TypeA)}

\* successful upstream responses with at least one answer record
CacheReplies(r) ==
    LET rr(t, data) == RR(r.Question[1].Name, t, 60, data)
    IN  <<[SetReply(r) EXCEPT !.Answer =
              <<rr(TypeA, ParseIP("10.0.0.1")), rr(TypeA, ParseIP("10.0.0.5")),
                rr(TypeAAAA, ParseIP("::1"))>>],
          [SetReply(r) EXCEPT !.Answer =
              <<rr(TypeA, ParseIP("10.0.0.5")), rr(TypeA, ParseIP("10.0.0.1"))>>],
          [SetReply(r) EXCEPT !.Answer =
              <<rr(TypeMX, [Preference |-> 10, Mx |-> "m.b."]),
                rr(TypeTXT, <<"v=", "spf1">>),
                rr(TypeSRV, [Priority |-> 0, Weight |-> 5, Port |-> 53,
                             Target |-> "s.b."]),
                rr(TypeCNAME, "c.b."), rr(TypeNS, "n.b."), rr(TypePTR, "p.b.")>>],
          [SetReply(r) EXCEPT !.Answer = <<rr(TypeSOA, "rdata")>>]>>

InitCache ==
    /\ options = DefaultOptions
    /\ boot = [state |-> "running", file |-> NoFile]
    /\ config = NoConfig
    /\ hm = <<>>
    /\ pc = [p \in Handlers |-> "idle"]
    /\ req = [p \in Handlers |-> NoQuestion]
    /\ attempt = [p \in Handlers |-> 0]
    /\ log = [p \in Handlers |-> <<>>]
    /\ served = 0

\* forwardToUpstream after a successful exchange: the cache write
cachePut(p) ==
    /\ served < MaxCacheOps
    /\ \E r \in CacheRequests, upstreamServer \in Range(options.UpstreamServers) :
          \E i \in 1..Len(CacheReplies(r)) :
              LET msg == CacheReplies(r)[i]
                  key == cacheKey(r.Question[1].Name,
                                  TypeToString(r.Question[1].Qtype))
                  bytes == GobEncode(extractDnsRecord(msg))
              IN  /\ shouldCache(options, msg)
                  /\ hm' = hmSet(hm, key, bytes)
                  /\ req' = [req EXCEPT ![p] = r]
                  /\ log' = [log EXCEPT ![p] = @ \o
                                <<EvExchange(upstreamServer, TRUE, msg),
                                  EvCacheSet(key, bytes)>>]
    /\ served' = served + 1
    /\ UNCHANGED <<options, config, pc, attempt, boot>>

\* handleDNSQuery at "Check cache": the lookup and the answer on a hit
cacheGet(p) ==
    /\ served < MaxCacheOps
    /\ \E r \in CacheRequests :
          LET domain == r.Question[1].Name
              qtype == r.Question[1].Qtype
              cached == cacheLookup(options, hm, cacheKey(domain, TypeToString(qtype)))
          IN  /\ typeSwitch(qtype) = "handleDNSQuery"
              /\ req' = [req EXCEPT ![p] = r]
              /\ log' = [log EXCEPT ![p] = @ \o cached.events \o
                            (IF cached.ok
                             THEN <<EvWrite("cache",
                                     createResponseFromDnsRecord(r, domain,
                                         cached.dnsRecord, qtype))>>
                             ELSE <<>>)]
    /\ served' = served + 1
    /\ UNCHANGED <<options, config, hm, pc, attempt, boot>>

NextCache == \E p \in Handlers : cachePut(p) \/ cacheGet(p)

CacheSpec == InitCache /\ [][NextCache]_vars

(***************************************************************************)
(* C21: cache round trip.  For every (domain, type) the pipeline reads     *)
(* (the supported types), a read returns the answer set of the last write  *)
(* made for that (domain, type), equal in every field and in the order of  *)
(* its records, however often it was written; and it misses when no write  *)
(* was made for that (domain, type), whatever was written for others.      *)
(***************************************************************************)
PutsFor(p, r) ==
    {i \in 1..Len(log[p]) :
        /\ log[p][i].ev = "exchange"
        /\ log[p][i].msg.Question = r.Question}

Highest(S) == CHOOSE i \in S : \A j \in S : j <= i

C21_CacheRoundTrip ==
    \A p \in Handlers : \A r \in CacheRequests :
        typeSwitch(r.Question[1].Qtype) = "handleDNSQuery" =>
            LET got == cacheLookup(options, hm,
                           cacheKey(r.Question[1].Name,
                                    TypeToString(r.Question[1].Qtype)))
            IN  IF PutsFor(p, r) = {}
                THEN ~got.ok
                ELSE /\ got.ok
                     /\ got.dnsRecord =
                            extractDnsRecord(log[p][Highest(PutsFor(p, r))].msg)

\* the same answer set written twice for (a.b., A), another one written
\* for (a.b., MX) in between or not, then read back with its two A records
\* in the order of the response
C21_Witness ==
    \E p \in Handlers :
        /\ Len(log[p]) = 6
        /\ log[p][1].ev = "exchange"
        /\ log[p][3] = log[p][1]
        /\ log[p][4] = log[p][2]
        /\ log[p][1].msg.Question = Request(dAB, TypeA).Question
        /\ extractDnsRecord(log[p][1].msg).A = <<"10.0.0.1", "10.0.0.5">>
        /\ extractDnsRecord(log[p][1].msg).AAAA = <<"::1">>
        /\ log[p][5].ev = "cacheGet"
        /\ log[p][6].ev = "write"
        /\ AnswerData(log[p][6].msg) = <<ParseIP("10.0.0.1"), ParseIP("10.0.0.5")>>

(***************************************************************************)
(* C22: with TinyDNS.OnServeDns set, every query that has reached the end  *)
(* of the pipeline has been followed by one invocation of the callback,    *)
(* the last thing its handler did.  The handlers (ServeDNS,                *)
(* handleDNSQuery, forwardToUpstream, sendFallbackOrEmpty) contain no call *)
(* of t.OnServeDns, so no handler ever records one.                        *)
(***************************************************************************)
Callbacks(p) == Events(p, "onServeDns")

C22_CallbackAfterEachResolution ==
    \A p \in Handlers :
        Finished(p) =>
            /\ Len(Callbacks(p)) = 1
            /\ log[p][Len(log[p])].ev = "onServeDns"

(***************************************************************************)
(* The success branch of forwardToUpstream when a call it makes fails:     *)
(* w.WriteMsg on a connection the client closed, the gob encoder, t.hm.Set *)
(* on the disk store.  The code reads none of the three results but the    *)
(* encoder's.                                                              *)
(***************************************************************************)
EvWriteError(tier, msg) == [ev |-> "writeError", tier |-> tier, msg |-> msg]
EvEncodeError(key) == [ev |-> "encodeError", key |-> key]
EvCacheSetError(key, bytes) == [ev |-> "cacheSetError", key |-> key, value |-> bytes]

\* variant: the cache is written first, the client is answered after it
successEventsCacheFirst(exchange, write, put) == <<exchange>> \o put \o <<write>>

\* the order of the calls of the success branch
successEvents(exchange, write, put) == <<exchange, write>> \o put

\* the "Cache the response" block, by the outcome of the encoder and the store
cachePutEvents(outcome, key, bytes) ==
    CASE outcome = "ok" -> <<EvCacheSet(key, bytes)>>
      [] outcome = "encodeError" -> <<EvEncodeError(key)>>
      [] OTHER -> <<EvCacheSetError(key, bytes)>>

PutOutcomes == {"ok", "encodeError", "storeError"}

upstreamSuccessIO(p) ==
    /\ pc[p] = "exchange"
    /\ loopContinues(attempt[p], effectiveRetries(options.UpstreamRetries))
    /\ \E upstreamServer \in Range(options.UpstreamServers),
          res \in ExchangeResults(req[p]),
          writeOk \in BOOLEAN, outcome \in PutOutcomes :
          LET r == req[p]
              key == cacheKey(r.Question[1].Name, TypeToString(r.Question[1].Qtype))
              bytes == GobEncode(extractDnsRecord(res.msg))
              cached == shouldCache(options, res.msg)
              write == IF writeOk
                       THEN EvWrite("upstream", upstreamResponse(r, res.msg))
                       ELSE EvWriteError("upstream", upstreamResponse(r, res.msg))
          IN  /\ exchangeSucceeded(res)
              /\ ~writeOk \/ (cached /\ outcome # "ok")
              /\ cached \/ outcome = "ok"
              /\ log' = [log EXCEPT ![p] = @ \o
                            successEvents(EvExchange(upstreamServer, TRUE, res.msg),
                                          write,
                                          IF cached
                                          THEN cachePutEvents(outcome, key, bytes)
                                          ELSE <<>>)]
              /\ hm' = IF cached /\ outcome = "ok" THEN hmSet(hm, key, bytes) ELSE hm
              /\ pc' = [pc EXCEPT ![p] = nextAfterAttempt(TRUE)]
    /\ UNCHANGED <<options, config, req, attempt, served, boot>>

NextIO == Next \/ \E p \in Handlers : upstreamSuccessIO(p)

\* runs without a rule file, so that queries reach the upstream
InitIO == InitFrom({sc \in UpstreamScenarios : ~sc.file.present})

IOSpec == InitIO /\ [][NextIO]_vars

(***************************************************************************)
(* C23: every cache write a query attempts (stored, or failed in the       *)
(* encoder or in the store) comes right after the write of that query's    *)
(* response, which is the response of the successful exchange unchanged;   *)
(* and a failed cache write leaves the response written, the cache as it   *)
(* was and the query finished.                                             *)
(***************************************************************************)
CachePutKinds == {"cacheSet", "encodeError", "cacheSetError"}

C23_WriteThenCache ==
    \A p \in Handlers : \A i \in 1..Len(log[p]) :
        log[p][i].ev \in CachePutKinds =>
            /\ i >= 3
            /\ log[p][i - 2].ev = "exchange"
            /\ log[p][i - 2].ok
            /\ log[p][i - 1].ev \in {"write", "writeError"}
            /\ log[p][i - 1].tier = "upstream"
            /\ log[p][i - 1].msg = log[p][i - 2].msg
            /\ \A j \in 1..Len(log[p]) :
                  log[p][j].ev \in {"write", "writeError"} => j = i - 1
            /\ i = Len(log[p])
            /\ pc[p] = "done"

C23_FailedPutStep ==
    \A p \in Handlers :
        (/\ Len(log'[p]) > Len(log[p])
         /\ log'[p][Len(log'[p])].ev \in {"encodeError", "cacheSetError"}) =>
            /\ hm' = hm
            /\ pc'[p] = "done"

C23_ResponseBeforeCacheWrite ==
    /\ []C23_WriteThenCache
    /\ [][C23_FailedPutStep]_vars

\* a query whose response reached the client and whose store write failed
C23_Witness ==
    \E p \in Handlers :
        /\ Finished(p)
        /\ Len(log[p]) >= 3
        /\ log[p][Len(log[p])].ev = "cacheSetError"
        /\ log[p][Len(log[p]) - 1].ev = "write"
        /\ Len(log[p][Len(log[p]) - 1].msg.Answer) = 1
        /\ QKey(p) \notin DOMAIN hm

(***************************************************************************)
(* C25: a query whose response could not be written to the client after a  *)
(* successful exchange writes nothing to the cache.  The code does not     *)
(* read the result of w.WriteMsg and goes on to the cache write.           *)
(***************************************************************************)
C25_FailedWriteDiscardsResult ==
    \A p \in Handlers :
        Count(p, "writeError") > 0 =>
            /\ Count(p, "cacheSet") = 0
            /\ QKey(p) \notin DOMAIN hm

(***************************************************************************)
(* Concurrent queries: the dns.Server runs ServeDNS in one goroutine per   *)
(* query.  Two handlers; the success branch of forwardToUpstream is taken  *)
(* in two steps, the exchange with the response write and then the cache   *)
(* write, so that the other handler may run in between.  t.hm.Get and      *)
(* t.hm.Set are atomic.                                                    *)
(***************************************************************************)
Racers == {1, 2}

\* variant: the new records are added to the entry the cache already holds
cachedBytesMerged(cache, key, msg) ==
    IF key \in DOMAIN cache /\ ~GobDecode(cache[key]).err
    THEN GobEncode(extractFrom(msg.Answer, GobDecode(cache[key]).dnsRecord))
    ELSE GobEncode(extractDnsRecord(msg))

\* dnsRecord := extractDnsRecord(msg) and its gob encoding
cachedBytes(cache, key, msg) == GobEncode(extractDnsRecord(msg))

InitRace ==
    /\ \E n \in 1..2 :
          options = [DefaultOptions EXCEPT !.UpstreamRetries = n]
    /\ boot = [state |-> "new", file |-> NoFile]
    /\ config = NoConfig
    /\ hm = <<>>
    /\ pc = [p \in Racers |-> "idle"]
    /\ req = [p \in Racers |-> NoQuestion]
    /\ attempt = [p \in Racers |-> 0]
    /\ log = [p \in Racers |-> <<>>]
    /\ served = 0

\* one iteration of the retry loop, up to the response write
raceExchange(p) ==
    /\ pc[p] = "exchange"
    /\ LET r == req[p]
           retries == effectiveRetries(options.UpstreamRetries)
       IN  IF ~loopContinues(attempt[p], retries)
           THEN /\ pc' = [pc EXCEPT ![p] = "sendFallbackOrEmpty"]
                /\ UNCHANGED <<attempt, log>>
           ELSE \E upstreamServer \in Range(options.UpstreamServers),
                   res \in ExchangeResults(r) :
                  IF exchangeSucceeded(res)
                  THEN /\ log' = [log EXCEPT ![p] = @ \o
                              <<EvExchange(upstreamServer, TRUE, res.msg),
                                EvWrite("upstream", upstreamResponse(r, res.msg))>>]
                       /\ pc' = [pc EXCEPT ![p] =
                              IF shouldCache(options, res.msg)
                              THEN "cachePut" ELSE nextAfterAttempt(TRUE)]
                       /\ UNCHANGED attempt
                  ELSE /\ log' = [log EXCEPT ![p] = @ \o
                              <<EvExchange(upstreamServer, FALSE, SetReply(r))>>
                              \o (IF sleepsAfterFailure(attempt[p], retries)
                                  THEN <<EvSleep>> ELSE <<>>)]
                       /\ attempt' = [attempt EXCEPT ![p] = @ + 1]
                       /\ pc' = [pc EXCEPT ![p] = nextAfterAttempt(FALSE)]
    /\ UNCHANGED <<options, config, hm, req, served, boot>>

\* the cache write of the success branch, and its return
raceCachePut(p) ==
    /\ pc[p] = "cachePut"
    /\ LET r == req[p]
           key == cacheKey(r.Question[1].Name, TypeToString(r.Question[1].Qtype))
           msg == log[p][Len(log[p]) - 1].msg
           bytes == cachedBytes(hm, key, msg)
       IN  /\ hm' = hmSet(hm, key, bytes)
           /\ log' = [log EXCEPT ![p] = Append(@, EvCacheSet(key, bytes))]
    /\ pc' = [pc EXCEPT ![p] = nextAfterAttempt(TRUE)]
    /\ UNCHANGED <<options, config, req, attempt, served, boot>>

NextRace ==
    \/ main
    \/ \E p \in Racers :
        \/ ServeDNS(p)
        \/ handleDNSQuery(p)
        \/ forwardToUpstream(p)
        \/ raceExchange(p)
        \/ raceCachePut(p)
        \/ sendFallbackOrEmpty(p)

RaceSpec == InitRace /\ [][NextRace]_vars

(***************************************************************************)
(* C24: under every interleaving of two concurrent queries, a step that    *)
(* changes the cache is the cache write of one handler and sets the entry  *)
(* of that handler's query to the answer set extracted from the response   *)
(* that handler received, whatever the cache held; so every entry is at    *)
(* all times the answer set of one upstream response, the one written      *)
(* last, and never holds records of two responses.                         *)
(***************************************************************************)
OwnResponse(p) == OkExchanges(p)[Len(OkExchanges(p))].msg

C24_BlindOverwriteStep ==
    hm' # hm =>
        \E p \in Racers :
            /\ pc[p] = "cachePut"
            /\ pc'[p] = "done"
            /\ Len(OkExchanges(p)) = 1
            /\ hm' = (QKey(p) :> GobEncode(extractDnsRecord(OwnResponse(p)))) @@ hm
            /\ \A q \in Racers \ {p} : pc'[q] = pc[q] /\ log'[q] = log[q]

C24_EntryOfOneResponse ==
    \A k \in DOMAIN hm :
        \E r \in Requests \ {NoQuestion} :
            \E m \in UpstreamReplies(r) :
                /\ Len(m.Answer) >= 1
                /\ k = r.Question[1].Name \o TypeToString(r.Question[1].Qtype)
                /\ hm[k] = GobEncode(extractDnsRecord(m))

C24_LastWriteWins ==
    /\ [][C24_BlindOverwriteStep]_vars
    /\ []C24_EntryOfOneResponse

\* two queries for the same (domain, type) both missed the cache, got
\* different answers from the upstream, and both wrote the entry
C24_Witness ==
    /\ pc[1] = "done" /\ pc[2] = "done"
    /\ HasQuestion(1) /\ HasQuestion(2)
    /\ QKey(1) = QKey(2)
    /\ Count(1, "cacheGet") = 1 /\ Count(2, "cacheGet") = 1
    /\ Count(1, "cacheSet") = 1 /\ Count(2, "cacheSet") = 1
    /\ log[1][Len(log[1])].value # log[2][Len(log[2])].value
    /\ hm[QKey(1)] = log[1][Len(log[1])].value

(***************************************************************************)
(* Rule files as YAML text.  A key of a rule is written or left out;       *)
(* yaml.Unmarshal fills the DNSRecord struct and leaves the zero value in  *)
(* the field of a key that is left out.  Rules of every supported type,    *)
(* queried with every supported type.                                      *)
(***************************************************************************)
Written(v) == [set |-> TRUE, v |-> v]
LeftOut == [set |-> FALSE, v |-> 0]

YamlRule(domain, type, value, values, ttl, priority, weight, port, target, action) ==
    [domain |-> domain, type |-> type, value |-> value, values |-> values,
     ttl |-> ttl, priority |-> priority, weight |-> weight, port |-> port,
     target |-> target, action |-> action]

\* yaml.Unmarshal(data, &config), one rule
Unmarshal(y) ==
    DNSRecord(y.domain, y.type, y.value, y.values,
              IF y.ttl.set THEN y.ttl.v ELSE 0,
              IF y.priority.set THEN y.priority.v ELSE 0,
              y.weight, y.port, y.target, y.action)

nAB == <<"a", ".", "b">>

YamlRules ==
    {YamlRule(nAB, <<"a">>, "192.168.1.100", <<"192.168.1.101", "10.0.0.1">>,
              LeftOut, LeftOut, 0, 0, "", ""),
     YamlRule(nAB, <<"A">>, "0.0.0.0", <<>>, Written(0), LeftOut, 0, 0, "", "resolve"),
     YamlRule(nAB, <<"A", "A", "A", "A">>, "", <<"::1", "::">>,
              Written(60), LeftOut, 0, 0, "", "resolve"),
     YamlRule(nAB, <<"m", "x">>, "", <<>>, Written(3600), LeftOut, 0, 0, "m.b.", ""),
     YamlRule(nAB, <<"M", "X">>, "", <<>>, LeftOut, Written(0), 0, 0, "m.b.", "resolve"),
     YamlRule(nAB, <<"M", "X">>, "", <<>>, Written(300), Written(5), 0, 0, "m.b.", "resolve"),
     YamlRule(nAB, <<"T", "X", "T">>, "v=spf1", <<>>, LeftOut, LeftOut, 0, 0, "", ""),
     YamlRule(nAB, <<"S", "R", "V">>, "", <<>>, Written(60), Written(1), 5, 53, "s.b.", ""),
     YamlRule(nAB, <<"C", "N", "A", "M", "E">>, "c.b.", <<>>, Written(0), LeftOut,
              0, 0, "", "resolve"),
     YamlRule(nAB, <<"N", "S">>, "n.b.", <<>>, LeftOut, LeftOut, 0, 0, "", ""),
     YamlRule(nAB, <<"P", "T", "R">>, "p.b.", <<>>, Written(60), LeftOut, 0, 0, "", "")}

\* a file: its text (Yaml) and what yaml.Unmarshal makes of it (Records)
YamlFile(rules) ==
    [present |-> TRUE, ok |-> TRUE,
     Records |-> [i \in 1..Len(rules) |-> Unmarshal(rules[i])],
     Upstream |-> ZeroUpstream, Yaml |-> rules]

YamlFiles == {YamlFile(rules) : rules \in SeqsUpTo(YamlRules, MaxYamlRules)}

TypedRequests ==
    {Request(dAB, t) : t \in SupportedTypes} \cup {Request(dB, TypeA)}

InitRule ==
    /\ options = [DefaultOptions EXCEPT !.DnsRecords = Star :> recStar,
                                        !.UpstreamRetries = 1]
    /\ \E f \in YamlFiles : boot = [state |-> "new", file |-> f]
    /\ config = NoConfig
    /\ hm = <<>>
    /\ pc = [p \in Handlers |-> "idle"]
    /\ req = [p \in Handlers |-> NoQuestion]
    /\ attempt = [p \in Handlers |-> 0]
    /\ log = [p \in Handlers |-> <<>>]
    /\ served = 0

\* ServeDNS for the queries of every supported type
ServeDNSTyped(p) ==
    /\ boot.state = "running"
    /\ pc[p] \in {"idle", "done"}
    /\ served < MaxQueries
    /\ \E r \in TypedRequests :
          LET out == ServeDNSOutcome(config, r)
          IN  /\ req' = [req EXCEPT ![p] = r]
              /\ log' = [log EXCEPT ![p] = out.events]
              /\ pc' = [pc EXCEPT ![p] = out.next]
    /\ attempt' = [attempt EXCEPT ![p] = 0]
    /\ served' = served + 1
    /\ UNCHANGED <<options, config, hm, boot>>

NextRule ==
    \/ main
    \/ \E p \in Handlers :
        \/ ServeDNSTyped(p)
        \/ handleDNSQuery(p)

RuleSpec == InitRule /\ [][NextRule]_vars

(***************************************************************************)
(* C26: a query decided by a resolve rule gets one response built from     *)
(* that rule alone.  For A and AAAA the answer holds the record of value   *)
(* (when it is not empty) followed by one record per entry of values, in   *)
(* order; for MX, TXT, SRV, CNAME, NS and PTR it holds one record built    *)
(* from the fields of the type.  Every record carries the queried name,    *)
(* the queried type and the TTL of the rule.                               *)
(***************************************************************************)
DecidingRule(p) == config.Records[Lowest(MatchingRules(p))]

RuleData(rule, qtype) ==
    CASE qtype \in {TypeA, TypeAAAA} ->
            (IF rule.Value # "" THEN <<ParseIP(rule.Value)>> ELSE <<>>)
            \o [i \in 1..Len(rule.Values) |-> ParseIP(rule.Values[i])]
      [] qtype = TypeMX -> <<[Preference |-> rule.Priority, Mx |-> rule.Target]>>
      [] qtype = TypeTXT -> <<<<rule.Value>>>>
      [] qtype = TypeSRV ->
            <<[Priority |-> rule.Priority, Weight |-> rule.Weight,
               Port |-> rule.Port, Target |-> rule.Target]>>
      [] OTHER -> <<rule.Value>>

C26_AnswerBuiltFromRule ==
    \A p \in Handlers :
        (Finished(p) /\ config.loaded /\ FirstRuleIs(p, "resolve")) =>
            LET rule == DecidingRule(p)
                ans == log[p][1].msg.Answer
            IN  /\ Len(log[p]) = 1
                /\ log[p][1].ev = "write"
                /\ log[p][1].tier = "config"
                /\ Len(ans) = IF QType(p) \in {TypeA, TypeAAAA}
                              THEN (IF rule.Value # "" THEN 1 ELSE 0) + Len(rule.Values)
                              ELSE 1
                /\ AnswerData(log[p][1].msg) = RuleData(rule, QType(p))
                /\ \A i \in 1..Len(ans) :
                      /\ ans[i].Name = QName(p)
                      /\ ans[i].Rrtype = QType(p)
                      /\ ans[i].Ttl = rule.TTL

\* an A rule with a value and two values: three records, value first
C26_Witness ==
    \E p \in Handlers :
        /\ Finished(p)
        /\ config.loaded
        /\ FirstRuleIs(p, "resolve")
        /\ QType(p) = TypeA
        /\ DecidingRule(p).Value = "192.168.1.100"
        /\ Len(DecidingRule(p).Values) = 2
        /\ AnswerData(log[p][1].msg) =
              <<ParseIP("192.168.1.100"), ParseIP("192.168.1.101"), ParseIP("10.0.0.1")>>

(***************************************************************************)
(* C27: after LoadConfig a rule without action has action resolve, a rule  *)
(* without ttl has TTL 300, a resolve MX rule without priority has         *)
(* priority 10, and a ttl or priority written in the rule is kept, 0       *)
(* included; the TTL of the records served for a resolve rule is the ttl   *)
(* written in the rule, and 300 only when none is written.                 *)
(***************************************************************************)
WrittenOr(field, default) == IF field.set THEN field.v ELSE default

C27_WrittenValuesKept ==
    config.loaded =>
        /\ \A i \in 1..Len(config.Records) :
              LET y == boot.file.Yaml[i]
                  rule == config.Records[i]
              IN  /\ rule.Action = IF y.action = "" THEN "resolve" ELSE y.action
                  /\ rule.TTL = WrittenOr(y.ttl, 300)
                  /\ (rule.Action = "resolve" /\ rule.Type = TypeToString(TypeMX)) =>
                        rule.Priority = WrittenOr(y.priority, 10)
        /\ \A p \in Handlers :
              (Finished(p) /\ FirstRuleIs(p, "resolve")) =>
                  \A i \in 1..Len(log[p][1].msg.Answer) :
                      log[p][1].msg.Answer[i].Ttl =
                          WrittenOr(boot.file.Yaml[Lowest(MatchingRules(p))].ttl, 300)

(***************************************************************************)
(* C28: no step of a running server changes the Record Store               *)
(* (options.DnsRecords), the rule list of the config, the upstream server  *)
(* list or any other option: at all times they are what New left.  Of the  *)
(* state of the server, serving a query changes the cache only.            *)
(***************************************************************************)
C28_ServingStep ==
    boot.state = "running" =>
        /\ options' = options
        /\ config' = config
        /\ boot' = boot

C28_AsNewLeftThem ==
    boot.state = "running" =>
        /\ options = New(options, boot.file).options
        /\ config = New(options, boot.file).config

PassedRecordStore(p) ==
    /\ Count(p, "storeGet") = 2
    /\ QLookup(p) \notin DOMAIN options.DnsRecords
    /\ Star \notin DOMAIN options.DnsRecords

AnsweredByUpstream(p) ==
    /\ Len(OkExchanges(p)) = 1
    /\ Len(OkExchanges(p)[1].msg.Answer) >= 1

C29_DiskCacheSwitchesCache ==
    \A p \in Handlers :
        Finished(p) =>
            IF options.DiskCache
            THEN /\ PassedRecordStore(p) => Count(p, "cacheGet") = 1
                 /\ AnsweredByUpstream(p) => Count(p, "cacheSet") = 1
            ELSE Count(p, "cacheGet") = 0 /\ Count(p, "cacheSet") = 0

(***************************************************************************)
(* C30: when the upstream server list holds at least as many servers as    *)
(* the retry count, the attempts of one query go to different servers: no  *)
(* server is asked twice for the same query.  The loop draws the server of *)
(* every attempt with sliceutil.PickRandom from the whole list.            *)
(***************************************************************************)
C30_AttemptsUseDifferentServers ==
    \A p \in Handlers :
        (/\ HasQuestion(p)
         /\ effectiveRetries(options.UpstreamRetries) <= Len(options.UpstreamServers)) =>
            \A i, j \in 1..Len(Exchanges(p)) :
                i # j => Exchanges(p)[i].server # Exchanges(p)[j].server

(***************************************************************************)
(* C31: a query with a question gets exactly one response.  While its      *)
(* handler runs no response has been written; when the handler returns,    *)
(* one response has been written, by one of the eight paths: config        *)
(* resolve, memory exact, memory wildcard, cache hit, upstream success     *)
(* (reached by a forward rule, an unsupported type or a miss of the local  *)
(* tiers), fallback answer, empty answer.                                  *)
(***************************************************************************)
ResponsePaths == LocalTiers \cup UpstreamTiers

C31_ExactlyOneResponse ==
    \A p \in Handlers :
        Serving(p) =>
            /\ Len(Writes(p)) = IF pc[p] = "done" THEN 1 ELSE 0
            /\ \A i \in 1..Len(Writes(p)) : Writes(p)[i].tier \in ResponsePaths

\* a query sent upstream by a forward rule, both attempts failed, answered
\* once by the fallback tier with an empty reply
C31_Witness ==
    \E p \in Handlers :
        /\ Finished(p)
        /\ config.loaded
        /\ FirstRuleIs(p, "forward")
        /\ Len(FailedExchanges(p)) = 2
        /\ OkExchanges(p) = <<>>
        /\ Len(Writes(p)) = 1
        /\ Writes(p)[1].tier = "empty"

(***************************************************************************)
(* C32: the entry the cache holds for (domain, type) has at least one      *)
(* record of the kind type, and a response served from the cache has at    *)
(* least one answer record, of the queried type.  The cache write tests    *)
(* len(msg.Answer) > 0 only, and extractDnsRecord files every record under *)
(* its own kind, not under the queried one.                                *)
(***************************************************************************)
RecordsOfKind(dnsRecord, r) ==
    createResponseFromDnsRecord(r, r.Question[1].Name, dnsRecord,
                                r.Question[1].Qtype).Answer

C32_CachedEntryHasQueriedKind ==
    /\ \A r \in Requests \ {NoQuestion} :
          LET k == r.Question[1].Name \o TypeToString(r.Question[1].Qtype)
          IN  (k \in DOMAIN hm /\ ~GobDecode(hm[k]).err) =>
                  Len(RecordsOfKind(GobDecode(hm[k]).dnsRecord, r)) >= 1
    /\ \A p \in Handlers : \A i \in 1..Len(Writes(p)) :
          Writes(p)[i].tier = "cache" =>
              /\ Len(Writes(p)[i].msg.Answer) >= 1
              /\ \A j \in 1..Len(Writes(p)[i].msg.Answer) :
                    Writes(p)[i].msg.Answer[j].Rrtype = QType(p)

(***************************************************************************)
(* C33: a query sent upstream by a forward rule or because its type is     *)
(* unsupported, answered by an upstream response with at least one answer  *)
(* record while the cache is enabled, stores the answer set of that        *)
(* response under its (domain, type), as a query that missed the local     *)
(* tiers does; and such a query never looks the cache up, whether or not   *)
(* an entry is stored under its key.                                       *)
(***************************************************************************)
SentUpstreamDirectly(p) ==
    \/ config.loaded /\ FirstRuleIs(p, "forward")
    \/ QType(p) \notin SupportedTypes

C33_WriteThroughOnEveryUpstreamSuccess ==
    \A p \in Handlers :
        (Serving(p) /\ SentUpstreamDirectly(p)) =>
            /\ Count(p, "cacheGet") = 0
            /\ Count(p, "storeGet") = 0
            /\ (/\ Finished(p)
                /\ options.UseDiskCache
                /\ AnsweredByUpstream(p)) =>
                  /\ Count(p, "cacheSet") = 1
                  /\ QKey(p) \in DOMAIN hm
                  /\ hm[QKey(p)] = GobEncode(extractDnsRecord(OkExchanges(p)[1].msg))
                  /\ log[p][Len(log[p])] = EvCacheSet(QKey(p), hm[QKey(p)])

\* the second query under a forward rule: the entry the first one stored is
\* in the cache, and the query went upstream without reading it, where
\* every attempt failed
C33_Witness ==
    \E p \in Handlers :
        /\ Finished(p)
        /\ served = 2
        /\ config.loaded
        /\ FirstRuleIs(p, "forward")
        /\ options.UseDiskCache
        /\ QKey(p) \in DOMAIN hm
        /\ Count(p, "cacheSet") = 0
        /\ Count(p, "cacheGet") = 0
        /\ OkExchanges(p) = <<>>
        /\ Len(Writes(p)) = 1
        /\ Writes(p)[1].tier = "empty"

(***************************************************************************)
(* The cache key.  Names as they come off the wire are fully qualified:    *)
(* labels followed by a dot each, or the root ".".  The names are drawn    *)
(* from an alphabet that spells the type names A and AAAA, the two         *)
(* supported type names of which one ends with the other.                  *)
(***************************************************************************)
NameAlphabet == {"A", "."}

IsFqdn(s) ==
    /\ Len(s) >= 1
    /\ s[Len(s)] = "."
    /\ Len(s) > 1 => s[1] # "."
    /\ \A i \in 1..(Len(s) - 1) : ~(s[i] = "." /\ s[i + 1] = ".")

KeyDomains == {s \in SeqsUpTo(NameAlphabet, MaxNameLen) : IsFqdn(s)}

KeyRequests == {Request(d, t) : d \in KeyDomains, t \in {TypeA, TypeAAAA, TypeNS}}

\* a successful upstream response for r, different for every type
KeyReply(r) ==
    CASE r.Question[1].Qtype = TypeA -> CacheReplies(r)[2]
      [] r.Question[1].Qtype = TypeAAAA -> CacheReplies(r)[1]
      [] OTHER -> CacheReplies(r)[3]

\* forwardToUpstream after a successful exchange: the cache write
keyPut(p) ==
    /\ served < MaxKeyOps
    /\ \E r \in KeyRequests, upstreamServer \in Range(options.UpstreamServers) :
          LET msg == KeyReply(r)
              key == cacheKey(r.Question[1].Name, TypeToString(r.Question[1].Qtype))
              bytes == GobEncode(extractDnsRecord(msg))
          IN  /\ shouldCache(options, msg)
              /\ hm' = hmSet(hm, key, bytes)
              /\ req' = [req EXCEPT ![p] = r]
              /\ log' = [log EXCEPT ![p] = @ \o
                            <<EvExchange(upstreamServer, TRUE, msg),
                              EvCacheSet(key, bytes)>>]
    /\ served' = served + 1
    /\ UNCHANGED <<options, config, pc, attempt, boot>>

\* handleDNSQuery at "Check cache": the lookup and the answer on a hit
keyGet(p) ==
    /\ served < MaxKeyOps
    /\ \E r \in KeyRequests :
          LET domain == r.Question[1].Name
              qtype == r.Question[1].Qtype
              cached == cacheLookup(options, hm, cacheKey(domain, TypeToString(qtype)))
          IN  /\ typeSwitch(qtype) = "handleDNSQuery"
              /\ req' = [req EXCEPT ![p] = r]
              /\ log' = [log EXCEPT ![p] = @ \o cached.events \o
                            (IF cached.ok
                             THEN <<EvWrite("cache",
                                     createResponseFromDnsRecord(r, domain,
                                         cached.dnsRecord, qtype))>>
                             ELSE <<>>)]
    /\ served' = served + 1
    /\ UNCHANGED <<options, config, hm, pc, attempt, boot>>

NextKey == \E p \in Handlers : keyPut(p) \/ keyGet(p)

KeySpec == InitCache /\ [][NextKey]_vars

(***************************************************************************)
(* C34: for fully-qualified domains and supported types, different         *)
(* (domain, type) have different cache keys; the entry read for a          *)
(* (domain, type) is the one written last for that same (domain, type),    *)
(* and there is none when nothing was written for it, whatever was written *)
(* for other domains and types; and every response served from the cache   *)
(* was built from an entry written for the queried (domain, type).         *)
(***************************************************************************)
KeyOf(r) == cacheKey(r.Question[1].Name, TypeToString(r.Question[1].Qtype))

PutsBefore(p, r, i) == {j \in PutsFor(p, r) : j < i}

C34_CacheKeyInjective ==
    /\ \A r1, r2 \in KeyRequests : r1 # r2 => KeyOf(r1) # KeyOf(r2)
    /\ \A p \in Handlers : \A r \in KeyRequests :
          LET got == cacheLookup(options, hm, KeyOf(r))
          IN  IF PutsFor(p, r) = {}
              THEN ~got.ok
              ELSE /\ got.ok
                   /\ got.dnsRecord = extractDnsRecord(KeyReply(r))
    /\ \A p \in Handlers : \A i \in 1..Len(log[p]) :
          log[p][i].ev = "write" =>
              LET r == [Question |-> log[p][i].msg.Question]
              IN  /\ PutsBefore(p, r, i) # {}
                  /\ log[p][i].msg.Answer =
                        RecordsOfKind(extractDnsRecord(KeyReply(r)), r)

\* an entry written for (A., AAAA); the read for (A., A), whose key A.A is
\* the beginning of the written key A.AAAA, misses
C34_Witness ==
    \E p \in Handlers :
        /\ Len(log[p]) = 3
        /\ log[p][1].ev = "exchange"
        /\ log[p][1].msg.Question = Request(<<"A", ".">>, TypeAAAA).Question
        /\ log[p][2].ev = "cacheSet"
        /\ log[p][3] = EvCacheGet(<<"A", ".", "A">>)
        /\ DOMAIN hm = {<<"A", ".", "A", "A", "A", "A">>}

(***************************************************************************)
(* Wildcard rules and their apex: rule files made of the wildcard rules    *)
(* '*.b', '*.a.b' and '*', queried for b, a.b and xb.                      *)
(***************************************************************************)
ruleResolveSubA ==
    DNSRecord(<<"*", ".", "a", ".", "b">>, <<"A">>, "10.0.0.8", <<>>,
              0, 0, 0, 0, "", "resolve")
ruleResolveAnyA ==
    DNSRecord(<<"*">>, <<"A">>, "10.0.0.9", <<>>, 0, 0, 0, 0, "", "resolve")

WildcardRules == {ruleForwardA, ruleResolveSubA, ruleResolveAnyA}

ApexScenarios ==
    {[opts |-> [DefaultOptions EXCEPT !.DnsRecords = recs,
                                      !.UpstreamServers = srv,
                                      !.UpstreamRetries = 1],
      file |-> ConfigFile(rs, ZeroUpstream)] :
        recs \in {<<>>, Star :> recStar}, srv \in ServerLists,
        rs \in SeqsUpTo(WildcardRules, MaxRules)}

InitApex == InitFrom(ApexScenarios)

ApexSpec == InitApex /\ [][Next]_vars

(***************************************************************************)
(* C35: a wildcard pattern '*.R' does not match the domain R itself: of    *)
(* the queried names it matches exactly those that end with '.' followed   *)
(* by R, and a query for R is decided as if the rule were not there: by    *)
(* the lowest other rule that matches it, or else by the later tiers.      *)
(***************************************************************************)
Remainder(pattern) == SubSeq(pattern, 3, Len(pattern))

IsApexOf(query, pattern) == IsWildcard(pattern) /\ query = Remainder(pattern)

ApexFreeMatch(query, pattern) ==
    /\ ~IsApexOf(query, pattern)
    /\ \/ pattern = <<"*">>
       \/ IsWildcard(pattern) /\ EndsWith(query, <<".">> \o Remainder(pattern))
       \/ ~IsWildcard(pattern) /\ query = pattern

ApexRulesFor(p) ==
    {i \in 1..Len(config.Records) :
        /\ IsApexOf(QLookup(p), config.Records[i].Domain)
        /\ config.Records[i].Type = TypeToString(QType(p))}

C35_ApexNotMatched ==
    /\ \A rule \in WildcardRules : \A d \in QDomains :
          LET query == TrimSuffix(d, <<".">>)
              pattern == rule.Domain
          IN  IsWildcard(pattern) =>
                 /\ ~matchesDomain(Remainder(pattern), pattern)
                 /\ matchesDomain(query, pattern)
                       <=> EndsWith(query, <<".">> \o Remainder(pattern))
    /\ \A p \in Handlers :
          (Serving(p) /\ config.loaded /\ ApexRulesFor(p) # {}) =>
              RuleDecides(p, ApexFreeMatch)

\* the query for b skipped the forward rule '*.b' and was answered from the
\* rule '*' after it
C35_Witness ==
    \E p \in Handlers :
        /\ Finished(p)
        /\ QLookup(p) = <<"b">>
        /\ QType(p) = TypeA
        /\ config.loaded
        /\ Len(config.Records) = 2
        /\ config.Records[1].Domain = <<"*", ".", "b">>
        /\ config.Records[1].Action = "forward"
        /\ config.Records[2].Domain = <<"*">>
        /\ Len(Writes(p)) = 1
        /\ Writes(p)[1].tier = "config"
        /\ Writes(p)[1].msg.Answer[1].Data = ParseIP("10.0.0.9")

\* the query for a.b skipped the rule '*.a.b', the only one, and reached the
\* Record Store
C35_WitnessTiers ==
    \E p \in Handlers :
        /\ Serving(p)
        /\ QLookup(p) = <<"a", ".", "b">>
        /\ QType(p) = TypeA
        /\ config.loaded
        /\ Len(config.Records) = 1
        /\ config.Records[1].Domain = <<"*", ".", "a", ".", "b">>
        /\ Count(p, "storeGet") >= 1

====
